---- MODULE Spec2Model ----
(***************************************************************************)
(* A model of openfairdb's search, ranking and use-case core.              *)
(*                                                                         *)
(*   business/usecase/mod.rs   create_new_entry, update_entry, rate_entry, *)
(*                             the bbox subscriptions, search, triple_id,  *)
(*                             create_new_user, login, delete_user,        *)
(*                             email_addresses_to_notify                   *)
(*   infrastructure/web/mod.rs extract_hash_tags, remove_hash_tags, the    *)
(*                             Responder for AppError                      *)
(*   business/sort.rs          average_rating, sort_by_avg_rating,         *)
(*                             sort_by_distance_to                         *)
(*   business/builder.rs       Entry::default, EntryBuild                  *)
(*   business/db.rs            the Db trait; the repository behind it is   *)
(*                             modelled as the specification describes it  *)
(*                                                                         *)
(* Numbers.  Coordinates are f64 degrees in the program; the model counts  *)
(* them in hundredths of a degree, so that the margins 0.02 and 0.04 are   *)
(* the integers 2 and 4.  An f64 that is the quotient of two integers is   *)
(* kept as the reduced fraction [num, den]; den = 0 encodes the IEEE       *)
(* results of a division by zero (0/0 = NaN, x/0 = +-inf).                 *)
(***************************************************************************)
EXTENDS Integers, Sequences, FiniteSets, TLC

VARIABLES
    db_entries,   \* Db::all_entries(): the stored entries, in storage order
    db_tags,      \* the stored tags (create_tag_if_it_does_not_exist)
    search_out,   \* the request and the return value of the last search call
    rt_ratings,   \* the &[Rating] handed to average_rating / sort_by_avg_rating
    rt_triples,   \* the &[Triple] handed to them
    rt_out,       \* the argument and the return value of the last call in sort.rs
    ds_inf_nan,   \* whether geo::distance of an infinite coordinate is NaN (else inf)
    ds_entries,   \* the Vec<Entry> that sort_by_distance_to sorts in place
    ds_out,       \* the arguments and the result of the last sort_by_distance_to
    db_ratings,   \* the stored ratings (create_rating)
    db_comments,  \* the stored comments (create_comment)
    db_triples,   \* the stored triples (create_triple), Db::all_triples()
    db_bbox_subscriptions,  \* the stored subscriptions, all_bbox_subscriptions()
    uc_hist,      \* per stored entry: the license it was created with and the
                  \* number of update_entry calls on it that returned Ok
    uc_out,       \* the request and the return value of the last use-case call
    upd_proc,     \* the update_entry calls in progress: position and locals
    db_users,     \* the stored users (create_user), Db::all_users()
    db_calls,     \* the repository calls of the last use-case call on users
                  \* or notifications, each with its outcome, in call order
    ht_text,      \* the free text handed to extract_hash_tags / remove_hash_tags
    ht_out,       \* their return values for it
    ti_triples,   \* the two triples handed to triple_id
    ti_out        \* the two ids it returned

searchVars == <<db_entries, db_tags, search_out>>
ratingVars == <<rt_ratings, rt_triples, rt_out>>
distVars == <<ds_inf_nan, ds_entries, ds_out>>
repoVars == <<db_ratings, db_comments, db_triples, db_bbox_subscriptions>>
ucVars == <<uc_hist, uc_out, upd_proc>>
userVars == <<db_users, db_calls>>
textVars == <<ht_text, ht_out>>
idVars == <<ti_triples, ti_out>>
vars == <<db_entries, db_tags, search_out, rt_ratings, rt_triples, rt_out,
          ds_inf_nan, ds_entries, ds_out, db_ratings, db_comments, db_triples,
          db_bbox_subscriptions, uc_hist, uc_out, upd_proc, db_users, db_calls,
          ht_text, ht_out, ti_triples, ti_out>>

---------------------------------------------------------------------------
(* Bounds of the model *)

\* entries the repository holds at most
MaxEntries == 6
\* length of the rating list handed to sort.rs
MaxRatings == 2
\* length of the triple list handed to sort.rs
MaxTriples == 2
\* length of the entry list handed to sort_by_distance_to
MaxDistEntries == 3
\* entries the repository holds at most in the update specifications
MaxUpdEntries == 2
\* the stored version up to which update_entry calls are followed
MaxVersion == 1
\* ratings the repository holds at most
MaxStoredRatings == 1
\* subscription records the repository holds at most
MaxSubscriptions == 2
\* users the repository holds at most
MaxUsers == 2

---------------------------------------------------------------------------
(* Generic helpers *)

Range(s) == {s[i] : i \in 1..Len(s)}

Min(a, b) == IF a <= b THEN a ELSE b

Abs(n) == IF n < 0 THEN -n ELSE n

RECURSIVE Gcd(_, _)
Gcd(a, b) == IF b = 0 THEN a ELSE Gcd(b, a % b)

\* Iterator::take(n)
Take(s, n) == SubSeq(s, 1, Min(n, Len(s)))

\* all sequences over S of length at most n
SeqsUpTo(S, n) == UNION {[1..k -> S] : k \in 0..n}

\* Option<T>
None == [some |-> FALSE, val |-> <<>>]
Some(x) == [some |-> TRUE, val |-> x]

---------------------------------------------------------------------------
(* f64 values that are quotients of integers *)

NaN == [num |-> 0, den |-> 0]

F64FromInt(n) == [num |-> n, den |-> 1]

\* (a as f64) / (b as f64), b >= 0
F64Div(a, b) ==
    IF b = 0
    THEN [num |-> (IF a > 0 THEN 1 ELSE IF a < 0 THEN -1 ELSE 0), den |-> 0]
    ELSE LET g == Gcd(Abs(a), b) IN [num |-> a \div g, den |-> b \div g]

is_nan(x) == x.den = 0 /\ x.num = 0

IntCmp(a, b) == IF a < b THEN "Less" ELSE IF a > b THEN "Greater" ELSE "Equal"

\* f64::partial_cmp: None when an operand is NaN
partial_cmp(x, y) ==
    IF is_nan(x) \/ is_nan(y) THEN None
    ELSE IF x.den = 0 /\ y.den = 0 THEN Some(IntCmp(x.num, y.num))
    ELSE IF x.den = 0 THEN Some(IF x.num > 0 THEN "Greater" ELSE "Less")
    ELSE IF y.den = 0 THEN Some(IF y.num > 0 THEN "Less" ELSE "Greater")
    ELSE Some(IntCmp(x.num * y.den, y.num * x.den))

unwrap_or(o, d) == IF o.some THEN o.val ELSE d

\* f64::INFINITY
Inf == [num |-> 1, den |-> 0]

\* f64::is_finite: neither NaN nor infinite
is_finite(x) == x.den # 0

---------------------------------------------------------------------------
(* business/sort.rs: the rating sort *)

\* variant: the operands compared in the other order (ascending)
AvgRatingAscending(avg_a, avg_b) == unwrap_or(partial_cmp(avg_a, avg_b), "Equal")

\* the comparator of sort_by_avg_rating, on the two averages:
\* b.avg.partial_cmp(&a.avg).unwrap_or(Ordering::Equal)
avg_rating_ordering(avg_a, avg_b) == unwrap_or(partial_cmp(avg_b, avg_a), "Equal")

\* variant: x is also moved past the elements that compare Equal to it
RECURSIVE InsertHeadUnstable(_, _, _)
InsertHeadUnstable(x, t, avg) ==
    IF t = <<>> THEN <<x>>
    ELSE IF avg_rating_ordering(avg[Head(t).id], avg[x.id]) # "Greater"
         THEN <<Head(t)>> \o InsertHeadUnstable(x, Tail(t), avg)
         ELSE <<x>> \o t

\* one step of the standard library's stable sort: x is moved to the right
\* past the elements that compare Less than it, and past no other
RECURSIVE insert_head(_, _, _)
insert_head(x, t, avg) ==
    IF t = <<>> THEN <<x>>
    ELSE IF avg_rating_ordering(avg[Head(t).id], avg[x.id]) = "Less"
         THEN <<Head(t)>> \o insert_head(x, Tail(t), avg)
         ELSE <<x>> \o t

\* Vec::sort_by with the comparator above; avg maps an entry id to its average
RECURSIVE sort_by(_, _)
sort_by(s, avg) ==
    IF s = <<>> THEN <<>>
    ELSE insert_head(Head(s), sort_by(Tail(s), avg), avg)

\* ObjectId and Triple
ObjectId(kind, id) == [kind |-> kind, id |-> id]
Triple(subject, predicate, object) ==
    [subject |-> subject, predicate |-> predicate, object |-> object]

\* the (entry id, rating id) pairs of the IsRatedWith triples of the entry
entry_rating_pairs(entry, triples) ==
    LET matching == SelectSeq(triples, LAMBDA x :
                        /\ x.subject.kind = "Entry"
                        /\ x.predicate = "IsRatedWith"
                        /\ x.object.kind = "Rating")
        pairs == [i \in 1..Len(matching) |->
                      <<matching[i].subject.id, matching[i].object.id>>]
    IN  SelectSeq(pairs, LAMBDA entry_rating : entry_rating[1] = entry.id)

\* .fold(0, |acc, ref rating| acc + rating.value)
RECURSIVE fold_values(_, _)
fold_values(acc, ratings) ==
    IF ratings = <<>> THEN acc
    ELSE fold_values(acc + Head(ratings).value, Tail(ratings))

\* variant: the quotient returned as it is
AverageRatingNoNanCheck(entry, ratings, triples) ==
    LET entry_ratings == entry_rating_pairs(entry, triples)
        linked == SelectSeq(ratings, LAMBDA rating :
                      \E i \in 1..Len(entry_ratings) : entry_ratings[i][2] = rating.id)
    IN  F64Div(fold_values(0, linked), Len(entry_ratings))

\* Rated::average_rating: the sum of the linked ratings' values over the
\* number of the entry's IsRatedWith triples, and 0.0 where that is NaN
average_rating(entry, ratings, triples) ==
    LET entry_ratings == entry_rating_pairs(entry, triples)
        linked == SelectSeq(ratings, LAMBDA rating :
                      \E i \in 1..Len(entry_ratings) : entry_ratings[i][2] = rating.id)
        avg == F64Div(fold_values(0, linked), Len(entry_ratings))
    IN  IF ~ is_nan(avg) THEN avg ELSE F64FromInt(0)

\* SortByAverageRating::sort_by_avg_rating
sort_by_avg_rating(entries, ratings, triples) ==
    sort_by(entries,
            [id \in {e.id : e \in Range(entries)} |->
                average_rating(CHOOSE e \in Range(entries) : e.id = id,
                               ratings, triples)])

---------------------------------------------------------------------------
(* business/sort.rs: the distance sort *)

\* tests::new_entry(id, lat, lng): here lat and lng are f64 values in whole
\* degrees, kept as [num, den] so that NaN and the infinities are values
tests_new_entry(id, lat, lng) == [id |-> id, lat |-> lat, lng |-> lng]

\* geo::distance.  Finite operands: the squared planar distance, which orders
\* the entries as the planar distance does.  A NaN operand gives NaN; an
\* infinite one gives NaN (great-circle) or inf (planar), as ds_inf_nan says
distance(a, c) ==
    LET operands == {a.lat, a.lng, c.lat, c.lng}
    IN  IF \A x \in operands : is_finite(x)
        THEN F64FromInt((a.lat.num - c.lat.num) * (a.lat.num - c.lat.num)
                        + (a.lng.num - c.lng.num) * (a.lng.num - c.lng.num))
        ELSE IF \E x \in operands : is_nan(x) THEN NaN
        ELSE IF ds_inf_nan THEN NaN ELSE Inf

\* DistanceTo::distance_to
distance_to(e, c) == distance([lat |-> e.lat, lng |-> e.lng], c)

\* the comparator of the first pass, |a, _|: it looks at a alone
finite_first_ordering(a) ==
    IF is_finite(a.lat) /\ is_finite(a.lng) THEN "Less" ELSE "Greater"

\* the insertion step of the standard library's sort with the first
\* comparator: x is moved past the elements that compare Less than it
RECURSIVE insert_head_finite_first(_, _)
insert_head_finite_first(x, t) ==
    IF t = <<>> THEN <<x>>
    ELSE IF finite_first_ordering(Head(t)) = "Less"
         THEN <<Head(t)>> \o insert_head_finite_first(x, Tail(t))
         ELSE <<x>> \o t

\* variant: the first pass left out
SortFiniteFirstSkipped(s) == s

\* self.sort_by(|a, _| if a is finite { Less } else { Greater })
RECURSIVE sort_finite_first(_)
sort_finite_first(s) ==
    IF s = <<>> THEN <<>>
    ELSE insert_head_finite_first(Head(s), sort_finite_first(Tail(s)))

\* variant: the distances compared in the other order
DistanceOrderingReversed(a, b, c) ==
    unwrap_or(partial_cmp(distance_to(b, c), distance_to(a, c)), "Equal")

\* a.distance_to(c).partial_cmp(&b.distance_to(c)).unwrap_or(Ordering::Equal)
distance_ordering(a, b, c) ==
    unwrap_or(partial_cmp(distance_to(a, c), distance_to(b, c)), "Equal")

\* the insertion step with the second comparator
RECURSIVE insert_head_by_distance(_, _, _)
insert_head_by_distance(x, t, c) ==
    IF t = <<>> THEN <<x>>
    ELSE IF distance_ordering(Head(t), x, c) = "Less"
         THEN <<Head(t)>> \o insert_head_by_distance(x, Tail(t), c)
         ELSE <<x>> \o t

\* self.sort_by(|a, b| ...distance...)
RECURSIVE sort_by_distance(_, _)
sort_by_distance(s, c) ==
    IF s = <<>> THEN <<>>
    ELSE insert_head_by_distance(Head(s), sort_by_distance(Tail(s), c), c)

\* variant: only the latitude of the reference coordinate is looked at
ReferenceFiniteLatOnly(c) == is_finite(c.lat)

\* c.lat.is_finite() && c.lng.is_finite()
reference_is_finite(c) == is_finite(c.lat) /\ is_finite(c.lng)

\* SortByDistanceTo::sort_by_distance_to: nothing is done for a reference
\* coordinate that is not finite
sort_by_distance_to(entries, c) ==
    IF ~ reference_is_finite(c) THEN entries
    ELSE sort_by_distance(sort_finite_first(entries), c)

---------------------------------------------------------------------------
(* business/builder.rs *)

\* impl Default for Entry
EntryDefault ==
    [id |-> "", version |-> 0, title |-> "", lat |-> 0, lng |-> 0,
     categories |-> <<>>, license |-> None]

\* Entry::build().id(id).finish()
EntryBuildId(id) == [EntryDefault EXCEPT !.id = id]

---------------------------------------------------------------------------
(* business/usecase/mod.rs: search *)

MAX_INVISIBLE_RESULTS == 5
\* 0.02 and 0.04 degrees, in hundredths of a degree
BBOX_LAT_EXT == 2
BBOX_LNG_EXT == 4

Coordinate(lat, lng) == [lat |-> lat, lng |-> lng]

\* geo::is_in_bbox / InBBox for Entry: bbox is <<south_west, north_east>>
in_bbox(x, bbox) ==
    /\ x.lat >= bbox[1].lat
    /\ x.lng >= bbox[1].lng
    /\ x.lat <= bbox[2].lat
    /\ x.lng <= bbox[2].lng

\* filter::entries_by_category_ids: the entry has one of the category ids
entries_by_category_ids(cat_ids, e) ==
    \E c \in Range(cat_ids) : c \in Range(e.categories)

\* free-text match of one word against the entry's title
text_matches(text, e) == text = e.title

\* filter::entries_by_tags_or_search_text
entries_by_tags_or_search_text(text, tags, e) ==
    IF tags # <<>>
    THEN \/ \E t \in Range(tags) : t \in Range(e.tags)
         \/ (text # "" /\ text_matches(text, e))
    ELSE text = "" \/ text_matches(text, e)

\* variant: the longitude margin used for the latitude as well
ExtendBboxLatAsLng(bbox) ==
    << Coordinate(bbox[1].lat - BBOX_LNG_EXT, bbox[1].lng - BBOX_LNG_EXT),
       Coordinate(bbox[2].lat + BBOX_LNG_EXT, bbox[2].lng + BBOX_LNG_EXT) >>

extend_bbox(bbox) ==
    << Coordinate(bbox[1].lat - BBOX_LAT_EXT, bbox[1].lng - BBOX_LNG_EXT),
       Coordinate(bbox[2].lat + BBOX_LAT_EXT, bbox[2].lng + BBOX_LNG_EXT) >>

\* entries.into_iter().filter(|x| x.in_bbox(&extended_bbox))
filter_extended_bbox(entries, bbox) ==
    LET extended_bbox == extend_bbox(bbox)
    IN  SelectSeq(entries, LAMBDA x : in_bbox(x, extended_bbox))

\* variant: a missing category filter treated as the empty one
FilterCategoriesUnwrapOrDefault(entries, categories) ==
    SelectSeq(entries, LAMBDA x : entries_by_category_ids(categories.val, x))

\* if let Some(ref cat_ids) = req.categories { ... }
filter_categories(entries, categories) ==
    IF categories.some
    THEN SelectSeq(entries, LAMBDA x : entries_by_category_ids(categories.val, x))
    ELSE entries

filter_tags_or_text(entries, text, tags) ==
    SelectSeq(entries, LAMBDA x : entries_by_tags_or_search_text(text, tags, x))

\* entries.sort_by_avg_rating(&req.entry_ratings)
sort_by_avg_rating_lookup(entries, entry_ratings) ==
    sort_by(entries, [id \in {e.id : e \in Range(entries)} |->
                         F64FromInt(entry_ratings[id])])

Ids(entries) == [i \in 1..Len(entries) |-> entries[i].id]

\* variant: the visible list cut like the invisible one
VisibleResultsTruncated(entries, bbox) ==
    Take(Ids(SelectSeq(entries, LAMBDA x : in_bbox(x, bbox))), MAX_INVISIBLE_RESULTS)

\* variant: the visible list filtered by the extended box
VisibleResultsExtended(entries, bbox) ==
    Ids(SelectSeq(entries, LAMBDA x : in_bbox(x, extend_bbox(bbox))))

visible_results(entries, bbox) ==
    Ids(SelectSeq(entries, LAMBDA x : in_bbox(x, bbox)))

\* variant: the visible ids not excluded
InvisibleResultsUnfiltered(entries, visible) ==
    Take(Ids(entries), MAX_INVISIBLE_RESULTS)

\* variant: no take(MAX_INVISIBLE_RESULTS)
InvisibleResultsNoTake(entries, visible) ==
    Ids(SelectSeq(entries, LAMBDA e : ~ \E i \in 1..Len(visible) : visible[i] = e.id))

invisible_results(entries, visible) ==
    Take(Ids(SelectSeq(entries,
                       LAMBDA e : ~ \E i \in 1..Len(visible) : visible[i] = e.id)),
         MAX_INVISIBLE_RESULTS)

\* the value search returns for the stored entries and the request
search_result(entries, req) ==
    LET in_ext   == filter_extended_bbox(entries, req.bbox)
        by_cat   == filter_categories(in_ext, req.categories)
        by_text  == filter_tags_or_text(by_cat, req.text, req.tags)
        sorted   == sort_by_avg_rating_lookup(by_text, req.entry_ratings)
        visible  == visible_results(sorted, req.bbox)
    IN  [visible |-> visible, invisible |-> invisible_results(sorted, visible)]

---------------------------------------------------------------------------
(* The repository behind the Db trait *)

\* Db::get_entry: the stored entry with the id, None for RepoError::NotFound
db_get_entry(entries, id) ==
    IF \E i \in 1..Len(entries) : entries[i].id = id
    THEN Some(entries[CHOOSE i \in 1..Len(entries) : entries[i].id = id])
    ELSE None

\* Db::update_entry: the stored record with the id of e is replaced by e
db_update_entry(entries, e) ==
    [i \in 1..Len(entries) |-> IF entries[i].id = e.id THEN e ELSE entries[i]]

\* the tag set after create_tag_if_it_does_not_exist for the first n tags
db_create_tags(tags, new_tags, n) == tags \cup Range(Take(new_tags, n))

---------------------------------------------------------------------------
(* business/usecase/mod.rs: update_entry *)

\* variant: only a version that is not newer than the stored one is refused
VersionConflictNotNewer(old, e) == e.version <= old.version

\* (old.version + 1) != e.version
version_conflict(old, e) == (old.version + 1) # e.version

\* variant: the license taken from the default entry
UpdatedEntryDefaultLicense(old, e) ==
    [id |-> e.id, version |-> e.version, title |-> e.title,
     lat |-> e.lat, lng |-> e.lng, categories |-> e.categories,
     tags |-> e.tags, license |-> None]

\* variant: the stored version written back
UpdatedEntryKeepsVersion(old, e) ==
    [id |-> e.id, version |-> old.version, title |-> e.title,
     lat |-> e.lat, lng |-> e.lng, categories |-> e.categories,
     tags |-> e.tags, license |-> old.license]

\* the Entry built from the request, with the license of the stored entry
updated_entry(old, e) ==
    [id |-> e.id, version |-> e.version, title |-> e.title,
     lat |-> e.lat, lng |-> e.lng, categories |-> e.categories,
     tags |-> e.tags, license |-> old.license]

---------------------------------------------------------------------------
(* business/usecase/mod.rs: rate_entry *)

\* filter::triple_by_subject(o_id): the triples with that subject
triple_by_subject(o_id, triple) == triple.subject = o_id

\* get_comment_ids_for_rating_id
get_comment_ids_for_rating_id(triples, rating_id) ==
    LET by_subject == SelectSeq(triples, LAMBDA triple :
                          triple_by_subject(ObjectId("Rating", rating_id), triple))
        commented == SelectSeq(by_subject, LAMBDA triple :
                          triple.predicate = "IsCommentedWith")
        comments == SelectSeq(commented, LAMBDA triple :
                          triple.object.kind = "Comment")
    IN  [i \in 1..Len(comments) |-> comments[i].object.id]

\* get_comments_by_rating_ids, for one id: the stored comments that the
\* IsCommentedWith triples of the rating name, in the order of the triples
get_comments_by_rating_id(triples, comments, id) ==
    LET c_ids == get_comment_ids_for_rating_id(triples, id)
        found == SelectSeq(c_ids, LAMBDA c_id :
                     \E k \in 1..Len(comments) : comments[k].id = c_id)
    IN  [i \in 1..Len(found) |->
            comments[CHOOSE k \in 1..Len(comments) :
                        /\ comments[k].id = found[i]
                        /\ \A m \in 1..(k - 1) : comments[m].id # found[i]]]

\* r.comment.len() < 1
empty_comment(r) == Len(r.comment) < 1

\* variant: the range taken as [-1, 3)
RatingValueOutsideExclusive(r) == r.value >= 2 \/ r.value < -1

\* r.value > 2 || r.value < -1
rating_value_outside(r) == r.value > 2 \/ r.value < -1

\* the Rating handed to create_rating
rating_of(r, e, rating_id) ==
    [id |-> rating_id, entry_id |-> e.id, value |-> r.value]

\* the Comment handed to create_comment
comment_of(r, comment_id) == [id |-> comment_id, text |-> r.comment]

\* variant: subject and object the other way round
RatingCommentTripleReversed(rating_id, comment_id) ==
    Triple(ObjectId("Comment", comment_id), "IsCommentedWith",
           ObjectId("Rating", rating_id))

\* the Triple handed to create_triple
rating_comment_triple(rating_id, comment_id) ==
    Triple(ObjectId("Rating", rating_id), "IsCommentedWith",
           ObjectId("Comment", comment_id))

---------------------------------------------------------------------------
(* business/usecase/mod.rs: the bounding box subscriptions *)

\* Db::delete_bbox_subscription: the record with the id is removed, and with
\* it the SubscribedTo triples that point to it
db_delete_bbox_subscription_record(subscriptions, id) ==
    SelectSeq(subscriptions, LAMBDA sub : sub.id # id)

db_delete_bbox_subscription_triples(triples, id) ==
    SelectSeq(triples, LAMBDA triple :
        ~ (triple.predicate = "SubscribedTo"
           /\ triple.object = ObjectId("BboxSubscription", id)))

\* validate::bbox: latitudes within +-90 and longitudes within +-180 degrees
validate_bbox(bbox) ==
    /\ \A c \in {bbox.south_west, bbox.north_east} :
           /\ c.lat >= -9000 /\ c.lat <= 9000
           /\ c.lng >= -18000 /\ c.lng <= 18000

\* variant: the subscriptions of every user, the username not compared
UserSubscriptionsOfAnyUser(triples, username) ==
    LET matching == SelectSeq(triples, LAMBDA triple :
                        /\ triple.subject.kind = "User"
                        /\ triple.predicate = "SubscribedTo"
                        /\ triple.object.kind = "BboxSubscription")
    IN  [i \in 1..Len(matching) |-> matching[i].object.id]

\* the ids of the subscriptions the user has SubscribedTo triples for, in the
\* order of all_triples()
user_subscriptions(triples, username) ==
    LET matching == SelectSeq(triples, LAMBDA triple :
                        /\ triple.subject.kind = "User"
                        /\ triple.predicate = "SubscribedTo"
                        /\ triple.object.kind = "BboxSubscription")
        of_user == SelectSeq(matching, LAMBDA triple : triple.subject.id = username)
    IN  [i \in 1..Len(of_user) |-> of_user[i].object.id]

\* get_bbox_subscriptions: the stored subscriptions whose id is among them
get_bbox_subscriptions(username, triples, subscriptions) ==
    LET ids == user_subscriptions(triples, username)
    IN  IF Len(ids) > 0
        THEN SelectSeq(subscriptions, LAMBDA sub :
                 \E i \in 1..Len(ids) : sub.id = ids[i])
        ELSE <<>>

\* variant: nothing is deleted before the new subscription is created
NoSubscriptionToDelete(ids) == <<>>

\* create_or_modify_subscription deletes user_subscriptions[0], if there is one
subscription_to_delete(ids) == IF Len(ids) > 0 THEN << ids[1] >> ELSE <<>>

\* the BboxSubscription handed to create_bbox_subscription
bbox_subscription_of(s_id, bbox) ==
    [id |-> s_id,
     south_west_lat |-> bbox.south_west.lat, south_west_lng |-> bbox.south_west.lng,
     north_east_lat |-> bbox.north_east.lat, north_east_lng |-> bbox.north_east.lng]

\* the Triple handed to create_triple
subscribed_to_triple(username, s_id) ==
    Triple(ObjectId("User", username), "SubscribedTo",
           ObjectId("BboxSubscription", s_id))

---------------------------------------------------------------------------
(* The repository and the inputs of the search specification *)

License == "CC0-1.0"

\* the NewEntry requests: at (0.05, 0.05), at (0.12, 0.14) and at (0.13, 0.14)
NewEntryInputs ==
    { [title |-> "w1", lat |-> 5,  lng |-> 5,  categories |-> <<"c1">>,
       tags |-> <<"t1">>, license |-> License],
      [title |-> "w2", lat |-> 12, lng |-> 14, categories |-> <<"c2">>,
       tags |-> <<>>, license |-> License],
      [title |-> "w2", lat |-> 13, lng |-> 14, categories |-> <<"c1", "c2">>,
       tags |-> <<"t1">>, license |-> License] }

EntryIdSpace == 1..(MaxEntries + 1)

\* the viewport (0.00, 0.00) .. (0.10, 0.10): the first kind of entry is
\* inside, the second on the north-east corner of the extended box, the third
\* outside the extended box in latitude
RequestBbox == << Coordinate(0, 0), Coordinate(10, 10) >>

\* the viewport (0.14, 0.18) .. (0.30, 0.30): the second kind of entry is on
\* the south-west corner of the extended box
NorthernBbox == << Coordinate(14, 18), Coordinate(30, 30) >>

\* rating lookups (entry id -> average): unordered with ties, and all equal
UnorderedRatings == [id \in EntryIdSpace |-> ((2 * id) % 5) - 1]
EqualRatings == [id \in EntryIdSpace |-> 0]

SearchRequest(bbox, categories, text, tags, entry_ratings) ==
    [bbox |-> bbox, categories |-> categories, text |-> text,
     tags |-> tags, entry_ratings |-> entry_ratings]

\* the SearchRequest values: no category filter, the empty one and proper
\* ones; no tag / text filter, tags alone, text alone, and both
SearchRequests ==
    { SearchRequest(RequestBbox, None, "", <<>>, UnorderedRatings),
      SearchRequest(RequestBbox, Some(<<>>), "", <<>>, UnorderedRatings),
      SearchRequest(RequestBbox, Some(<<"c1">>), "", <<>>, UnorderedRatings),
      SearchRequest(RequestBbox, Some(<<"c2">>), "w2", <<>>, UnorderedRatings),
      SearchRequest(RequestBbox, None, "", <<"t1">>, UnorderedRatings),
      SearchRequest(RequestBbox, Some(<<"c2", "c1">>), "w1", <<"t1">>, EqualRatings),
      SearchRequest(RequestBbox, None, "", <<>>, EqualRatings),
      SearchRequest(NorthernBbox, None, "", <<>>, UnorderedRatings),
      SearchRequest(NorthernBbox, Some(<<"c2">>), "w1", <<>>, EqualRatings) }

NoSearch ==
    [called |-> FALSE, ok |-> FALSE,
     req |-> SearchRequest(RequestBbox, None, "", <<>>, EqualRatings),
     visible |-> <<>>, invisible |-> <<>>]

NoRatingCall == [op |-> "none", entry |-> "", input |-> <<>>, avg |-> NaN, sorted |-> <<>>]

NoDistCall ==
    [called |-> FALSE, c |-> Coordinate(F64FromInt(0), F64FromInt(0)),
     input |-> <<>>, sorted |-> <<>>]

\* no extract_hash_tags / remove_hash_tags call yet
NoHashTagCall == [called |-> FALSE, tags |-> <<>>, text |-> <<>>]

\* what a use-case call leaves in uc_out: the operation, the id and version
\* of its request, the version get_entry returned and the return value
UcOut(op, id, version, old, result) ==
    [op |-> op, id |-> id, version |-> version, old |-> old, result |-> result]

NoUcCall == UcOut("none", 0, 0, None, "")

\* no update_entry call in progress
NoUpdates == <<>>

\* the parts of the state a specification does not use
IdleRating == rt_ratings = <<>> /\ rt_triples = <<>> /\ rt_out = NoRatingCall
IdleDist == ds_inf_nan = FALSE /\ ds_entries = <<>> /\ ds_out = NoDistCall
IdleRepo ==
    /\ db_ratings = <<>>
    /\ db_comments = <<>>
    /\ db_triples = <<>>
    /\ db_bbox_subscriptions = <<>>
IdleUc == uc_hist = <<>> /\ uc_out = NoUcCall /\ upd_proc = NoUpdates
IdleUsers == db_users = <<>> /\ db_calls = <<>>
IdleText == ht_text = <<>> /\ ht_out = NoHashTagCall
IdleIds == ti_triples = <<>> /\ ti_out = <<>>

\* create_new_entry: a fresh id, version 0, the tags upserted, the entry stored
create_new_entry(e) ==
    /\ Len(db_entries) < MaxEntries
    /\ LET new_entry == [id |-> Len(db_entries) + 1,
                         version |-> 0,
                         title |-> e.title,
                         lat |-> e.lat,
                         lng |-> e.lng,
                         categories |-> e.categories,
                         tags |-> e.tags,
                         license |-> Some(e.license)]
       IN  /\ db_tags' = db_tags \cup Range(new_entry.tags)
           /\ db_entries' = Append(db_entries, new_entry)
           /\ uc_hist' = Append(uc_hist, [id |-> new_entry.id,
                                          license |-> e.license, updates |-> 0])
           /\ uc_out' = UcOut("create_new_entry", new_entry.id, 0, None, "Ok")
    /\ search_out' = NoSearch
    /\ UNCHANGED <<ratingVars, distVars, repoVars, upd_proc>>
    /\ UNCHANGED <<userVars, textVars, idVars>>

\* create_new_entry returning Err: create_tag_if_it_does_not_exist fails
\* after n tags, or create_entry fails after all of them; no entry is stored
create_new_entry_fails(e) ==
    /\ Len(db_entries) < MaxEntries
    /\ \E n \in 0..Len(e.tags) : db_tags' = db_create_tags(db_tags, e.tags, n)
    /\ uc_out' = UcOut("create_new_entry", Len(db_entries) + 1, 0, None, "Other")
    /\ search_out' = NoSearch
    /\ UNCHANGED <<db_entries, uc_hist, upd_proc>>
    /\ UNCHANGED <<ratingVars, distVars, repoVars>>
    /\ UNCHANGED <<userVars, textVars, idVars>>

\* update_entry: get_entry, the version check, the tags upserted, the record
\* replaced; every repository call may fail, and what was written stays
update_entry(e) ==
    LET got == db_get_entry(db_entries, e.id)
        out(old, result) == UcOut("update_entry", e.id, e.version, old, result)
    IN  /\ \/ /\ uc_out' = out(None, IF got.some THEN "Other" ELSE "NotFound")
              /\ UNCHANGED <<db_entries, db_tags, uc_hist>>
           \/ /\ got.some
              /\ version_conflict(got.val, e)
              /\ uc_out' = out(Some(got.val.version), "InvalidVersion")
              /\ UNCHANGED <<db_entries, db_tags, uc_hist>>
           \/ /\ got.some
              /\ ~ version_conflict(got.val, e)
              /\ got.val.version < MaxVersion
              /\ LET new_entry == updated_entry(got.val, e)
                 IN  \/ /\ \E n \in 0..Len(new_entry.tags) :
                               db_tags' = db_create_tags(db_tags, new_entry.tags, n)
                        /\ uc_out' = out(Some(got.val.version), "Other")
                        /\ UNCHANGED <<db_entries, uc_hist>>
                     \/ /\ db_tags' = db_create_tags(db_tags, new_entry.tags,
                                                     Len(new_entry.tags))
                        /\ db_entries' = db_update_entry(db_entries, new_entry)
                        /\ uc_hist' = [i \in 1..Len(uc_hist) |->
                                          IF uc_hist[i].id = e.id
                                          THEN [uc_hist[i] EXCEPT !.updates = @ + 1]
                                          ELSE uc_hist[i]]
                        /\ uc_out' = out(Some(got.val.version), "Ok")
        /\ UNCHANGED <<search_out, upd_proc>>
        /\ UNCHANGED <<ratingVars, distVars, repoVars>>
        /\ UNCHANGED <<userVars, textVars, idVars>>

\* search: Err when all_entries fails, else Ok((visible, invisible)) computed
\* from the stored entries; the repository is only read
search(req) ==
    /\ \/ search_out' = [called |-> TRUE, ok |-> FALSE, req |-> req,
                         visible |-> <<>>, invisible |-> <<>>]
       \/ LET res == search_result(db_entries, req)
          IN  search_out' = [called |-> TRUE, ok |-> TRUE, req |-> req,
                             visible |-> res.visible, invisible |-> res.invisible]
    /\ UNCHANGED <<db_entries, db_tags>>
    /\ UNCHANGED <<ratingVars, distVars, repoVars, ucVars>>
    /\ UNCHANGED <<userVars, textVars, idVars>>

InitSearch ==
    /\ IdleUsers /\ IdleText /\ IdleIds
    /\ db_entries = <<>>
    /\ db_tags = {}
    /\ search_out = NoSearch
    /\ IdleRating /\ IdleDist /\ IdleRepo /\ IdleUc

NextSearch ==
    \/ \E e \in NewEntryInputs : create_new_entry(e)
    \/ \E req \in SearchRequests : search(req)

SpecSearch == InitSearch /\ [][NextSearch]_vars

---------------------------------------------------------------------------
(* The entry life cycle: create_new_entry and update_entry, one call at a time *)

\* the NewEntry requests: two licenses, one request with a tag
LifeNewEntryInputs ==
    { [title |-> "w1", lat |-> 5, lng |-> 5, categories |-> <<"c1">>,
       tags |-> <<>>, license |-> License],
      [title |-> "w2", lat |-> 5, lng |-> 5, categories |-> <<"c1">>,
       tags |-> <<"t2">>, license |-> "ODbL-1.0"] }

\* the UpdateEntry requests: the stored ids and one that is not stored, the
\* versions from 0 to one above the highest version that is followed
UpdateEntryInputs ==
    { [id |-> id, version |-> v, title |-> "w3", lat |-> 6, lng |-> 6,
       categories |-> <<"c2">>, tags |-> <<"t2">>] :
        id \in 1..(MaxUpdEntries + 1), v \in 0..(MaxVersion + 1) }

InitLife ==
    /\ IdleUsers /\ IdleText /\ IdleIds
    /\ db_entries = <<>>
    /\ db_tags = {}
    /\ search_out = NoSearch
    /\ IdleRating /\ IdleDist /\ IdleRepo /\ IdleUc

NextLife ==
    \/ \E e \in LifeNewEntryInputs :
          Len(db_entries) < MaxUpdEntries /\ create_new_entry(e)
    \/ \E e \in LifeNewEntryInputs :
          Len(db_entries) < MaxUpdEntries /\ create_new_entry_fails(e)
    \/ \E e \in UpdateEntryInputs : update_entry(e)

SpecLife == InitLife /\ [][NextLife]_vars

---------------------------------------------------------------------------
(* update_entry calls of two requests at once.  Each call has its own        *)
(* connection to the repository; a step is one repository call of one of    *)
(* them, with the local computation that follows it.                        *)

Writers == {"w3", "w4"}

\* the UpdateEntry request of a writer: entry 1, the writer's name as title,
\* and a tag in the request of the first writer only
WriterRequest(p, v) ==
    [id |-> 1, version |-> v, title |-> p, lat |-> 6, lng |-> 6,
     categories |-> <<"c2">>, tags |-> IF p = "w3" THEN <<"t2">> ELSE <<>>]

\* a writer outside a call, before its first one
NoUpdateCall ==
    [pc |-> "idle", req |-> WriterRequest("w3", 0), old |-> None, n |-> 0,
     result |-> ""]

\* update_entry up to the version check: db.get_entry(&e.id)?, then
\* Err(InvalidVersion) or on to the tags and the write
upd_get_entry(p, e) ==
    LET got == db_get_entry(db_entries, e.id)
        call == [NoUpdateCall EXCEPT !.req = e]
    IN  /\ upd_proc[p].pc \in {"idle", "done"}
        /\ \/ upd_proc' = [upd_proc EXCEPT ![p] =
                 [call EXCEPT !.pc = "done",
                              !.result = IF got.some THEN "Other" ELSE "NotFound"]]
           \/ /\ got.some
              /\ version_conflict(got.val, e)
              /\ upd_proc' = [upd_proc EXCEPT ![p] =
                    [call EXCEPT !.pc = "done", !.old = got,
                                 !.result = "InvalidVersion"]]
           \/ /\ got.some
              /\ ~ version_conflict(got.val, e)
              /\ got.val.version < MaxVersion
              /\ upd_proc' = [upd_proc EXCEPT ![p] =
                    [call EXCEPT !.pc = IF e.tags = <<>> THEN "write" ELSE "tags",
                                 !.old = got]]
        /\ UNCHANGED <<db_entries, db_tags, search_out, uc_hist, uc_out>>
        /\ UNCHANGED <<ratingVars, distVars, repoVars>>
        /\ UNCHANGED <<userVars, textVars, idVars>>

\* one db.create_tag_if_it_does_not_exist(..)? of the loop over the tags
upd_create_tag(p) ==
    LET call == upd_proc[p]
    IN  /\ call.pc = "tags"
        /\ \/ /\ upd_proc' = [upd_proc EXCEPT ![p] =
                    [call EXCEPT !.pc = "done", !.result = "Other"]]
              /\ UNCHANGED db_tags
           \/ /\ db_tags' = db_tags \cup {call.req.tags[call.n + 1]}
              /\ upd_proc' = [upd_proc EXCEPT ![p] =
                    [call EXCEPT !.n = @ + 1,
                                 !.pc = IF call.n + 1 = Len(call.req.tags)
                                        THEN "write" ELSE "tags"]]
        /\ UNCHANGED <<db_entries, search_out, uc_hist, uc_out>>
        /\ UNCHANGED <<ratingVars, distVars, repoVars>>
        /\ UNCHANGED <<userVars, textVars, idVars>>

\* db.update_entry(&new_entry)? and the return; new_entry was built from the
\* entry this call read
upd_write(p) ==
    LET call == upd_proc[p]
        new_entry == updated_entry(call.old.val, call.req)
    IN  /\ call.pc = "write"
        /\ \/ /\ upd_proc' = [upd_proc EXCEPT ![p] =
                    [call EXCEPT !.pc = "done", !.result = "Other"]]
              /\ UNCHANGED <<db_entries, uc_hist>>
           \/ /\ db_entries' = db_update_entry(db_entries, new_entry)
              /\ uc_hist' = [i \in 1..Len(uc_hist) |->
                                IF uc_hist[i].id = new_entry.id
                                THEN [uc_hist[i] EXCEPT !.updates = @ + 1]
                                ELSE uc_hist[i]]
              /\ upd_proc' = [upd_proc EXCEPT ![p] =
                    [call EXCEPT !.pc = "done", !.result = "Ok"]]
        /\ UNCHANGED <<db_tags, search_out, uc_out>>
        /\ UNCHANGED <<ratingVars, distVars, repoVars>>
        /\ UNCHANGED <<userVars, textVars, idVars>>

\* the repository after one create_new_entry call, and both writers idle
InitConcurrent ==
    /\ IdleUsers /\ IdleText /\ IdleIds
    /\ db_entries = << [id |-> 1, version |-> 0, title |-> "w1", lat |-> 5,
                        lng |-> 5, categories |-> <<"c1">>, tags |-> <<>>,
                        license |-> Some(License)] >>
    /\ db_tags = {}
    /\ search_out = NoSearch
    /\ uc_hist = << [id |-> 1, license |-> License, updates |-> 0] >>
    /\ uc_out = UcOut("create_new_entry", 1, 0, None, "Ok")
    /\ upd_proc = [p \in Writers |-> NoUpdateCall]
    /\ IdleRating /\ IdleDist /\ IdleRepo

NextConcurrent ==
    \/ \E p \in Writers, v \in 0..(MaxVersion + 1) :
          upd_get_entry(p, WriterRequest(p, v))
    \/ \E p \in Writers : upd_create_tag(p)
    \/ \E p \in Writers : upd_write(p)

SpecConcurrent == InitConcurrent /\ [][NextConcurrent]_vars

---------------------------------------------------------------------------
(* rate_entry, one call at a time *)

\* what rate_entry leaves in uc_out: the request, whether get_entry returned
\* the entry, and the return value
RateOut(r, found, result) ==
    [op |-> "rate_entry", entry |-> r.entry, value |-> r.value,
     comment |-> r.comment, found |-> found, result |-> result]

\* the RateEntry requests: the stored entry and one that is not stored, the
\* values of the range, its neighbours and the ends of i8, an empty and a
\* non-empty comment
RateEntryInputs ==
    { [entry |-> id, value |-> v, comment |-> c] :
        id \in {1, 2}, v \in {-128, -2, -1, 0, 1, 2, 3, 127}, c \in {"", "good"} }

\* rate_entry: get_entry, the two parameter checks, then create_rating,
\* create_comment and create_triple with fresh ids; every repository call
\* may fail, and what was created before stays
rate_entry(r) ==
    LET got == db_get_entry(db_entries, r.entry)
        rating_id == Len(db_ratings) + Len(db_comments) + 1
        comment_id == rating_id + 1
    IN  /\ \/ /\ uc_out' = RateOut(r, FALSE, IF got.some THEN "Other" ELSE "NotFound")
              /\ UNCHANGED <<db_ratings, db_comments, db_triples>>
           \/ /\ got.some
              /\ empty_comment(r)
              /\ uc_out' = RateOut(r, TRUE, "EmptyComment")
              /\ UNCHANGED <<db_ratings, db_comments, db_triples>>
           \/ /\ got.some
              /\ ~ empty_comment(r)
              /\ rating_value_outside(r)
              /\ uc_out' = RateOut(r, TRUE, "RatingValue")
              /\ UNCHANGED <<db_ratings, db_comments, db_triples>>
           \/ /\ got.some
              /\ ~ empty_comment(r)
              /\ ~ rating_value_outside(r)
              /\ Len(db_ratings) < MaxStoredRatings
              /\ \/ /\ uc_out' = RateOut(r, TRUE, "Other")
                    /\ UNCHANGED <<db_ratings, db_comments, db_triples>>
                 \/ /\ db_ratings' = Append(db_ratings, rating_of(r, got.val, rating_id))
                    /\ uc_out' = RateOut(r, TRUE, "Other")
                    /\ UNCHANGED <<db_comments, db_triples>>
                 \/ /\ db_ratings' = Append(db_ratings, rating_of(r, got.val, rating_id))
                    /\ db_comments' = Append(db_comments, comment_of(r, comment_id))
                    /\ uc_out' = RateOut(r, TRUE, "Other")
                    /\ UNCHANGED db_triples
                 \/ /\ db_ratings' = Append(db_ratings, rating_of(r, got.val, rating_id))
                    /\ db_comments' = Append(db_comments, comment_of(r, comment_id))
                    /\ db_triples' = Append(db_triples,
                                            rating_comment_triple(rating_id, comment_id))
                    /\ uc_out' = RateOut(r, TRUE, "Ok")
        /\ UNCHANGED <<db_entries, db_tags, search_out, uc_hist, upd_proc>>
        /\ UNCHANGED <<db_bbox_subscriptions, ratingVars, distVars>>
        /\ UNCHANGED <<userVars, textVars, idVars>>

\* the repository after one create_new_entry call
InitRate ==
    /\ IdleUsers /\ IdleText /\ IdleIds
    /\ db_entries = << [id |-> 1, version |-> 0, title |-> "w1", lat |-> 5,
                        lng |-> 5, categories |-> <<"c1">>, tags |-> <<>>,
                        license |-> Some(License)] >>
    /\ db_tags = {}
    /\ search_out = NoSearch
    /\ uc_hist = << [id |-> 1, license |-> License, updates |-> 0] >>
    /\ uc_out = UcOut("create_new_entry", 1, 0, None, "Ok")
    /\ upd_proc = NoUpdates
    /\ IdleRating /\ IdleDist /\ IdleRepo

NextRate == \E r \in RateEntryInputs : rate_entry(r)

SpecRate == InitRate /\ [][NextRate]_vars

---------------------------------------------------------------------------
(* subscribe_to_bbox and unsubscribe_all_bboxes, one call at a time *)

Usernames == {"u1", "u2"}

\* the coordinate lists of subscribe_to_bbox: two boxes, a box with a
\* latitude of 91 degrees, and a list of one coordinate
SubscribeCoordinates ==
    { RequestBbox, NorthernBbox,
      << Coordinate(0, 0), Coordinate(9100, 10) >>,
      << Coordinate(0, 0) >> }

\* what the subscription use cases leave in uc_out
SubOut(op, username, coordinates, result) ==
    [op |-> op, username |-> username, coordinates |-> coordinates,
     result |-> result]

\* Uuid::new_v4(): an id that no stored subscription and no triple holds
fresh_subscription_id(subscriptions, triples) ==
    LET used == {subscriptions[i].id : i \in 1..Len(subscriptions)}
                \cup {triples[i].object.id : i \in 1..Len(triples)}
    IN  CHOOSE s_id \in 1..(Cardinality(used) + 1) : s_id \notin used

\* the repository after delete_bbox_subscription for each of the ids
RECURSIVE deleted_records(_, _)
deleted_records(subscriptions, ids) ==
    IF ids = <<>> THEN subscriptions
    ELSE deleted_records(db_delete_bbox_subscription_record(subscriptions, Head(ids)),
                         Tail(ids))

RECURSIVE deleted_triples(_, _)
deleted_triples(triples, ids) ==
    IF ids = <<>> THEN triples
    ELSE deleted_triples(db_delete_bbox_subscription_triples(triples, Head(ids)),
                         Tail(ids))

\* create_or_modify_subscription: the first subscription of the user is
\* deleted, a new record and its triple are created; every repository call
\* may fail, and what was done before stays
create_or_modify_subscription(bbox, username, coordinates) ==
    LET out(result) == SubOut("subscribe_to_bbox", username, coordinates, result)
        ids == subscription_to_delete(user_subscriptions(db_triples, username))
        kept == deleted_records(db_bbox_subscriptions, ids)
        kept_triples == deleted_triples(db_triples, ids)
        s_id == fresh_subscription_id(db_bbox_subscriptions, db_triples)
    IN  \/ /\ uc_out' = out("Other")
           /\ UNCHANGED <<db_bbox_subscriptions, db_triples>>
        \/ /\ db_bbox_subscriptions' = kept
           /\ db_triples' = kept_triples
           /\ uc_out' = out("Other")
        \/ /\ Len(kept) < MaxSubscriptions
           /\ db_bbox_subscriptions' = Append(kept, bbox_subscription_of(s_id, bbox))
           /\ db_triples' = kept_triples
           /\ uc_out' = out("Other")
        \/ /\ Len(kept) < MaxSubscriptions
           /\ db_bbox_subscriptions' = Append(kept, bbox_subscription_of(s_id, bbox))
           /\ db_triples' = Append(kept_triples, subscribed_to_triple(username, s_id))
           /\ uc_out' = out("Ok")

\* subscribe_to_bbox: two coordinates that validate::bbox accepts, then
\* create_or_modify_subscription
subscribe_to_bbox(coordinates, username) ==
    /\ \/ /\ Len(coordinates) # 2
          /\ uc_out' = SubOut("subscribe_to_bbox", username, coordinates, "Bbox")
          /\ UNCHANGED <<db_bbox_subscriptions, db_triples>>
       \/ /\ Len(coordinates) = 2
          /\ LET bbox == [south_west |-> coordinates[1], north_east |-> coordinates[2]]
             IN  IF validate_bbox(bbox)
                 THEN create_or_modify_subscription(bbox, username, coordinates)
                 ELSE /\ uc_out' = SubOut("subscribe_to_bbox", username,
                                          coordinates, "Bbox")
                      /\ UNCHANGED <<db_bbox_subscriptions, db_triples>>
    /\ UNCHANGED <<db_entries, db_tags, search_out, uc_hist, upd_proc>>
    /\ UNCHANGED <<db_ratings, db_comments, ratingVars, distVars>>
    /\ UNCHANGED <<userVars, textVars, idVars>>

\* unsubscribe_all_bboxes: delete_bbox_subscription for each subscription of
\* the user; a failing call ends the loop with the earlier ones deleted
unsubscribe_all_bboxes(username) ==
    LET ids == user_subscriptions(db_triples, username)
    IN  /\ \E n \in 0..Len(ids) :
              /\ db_bbox_subscriptions' =
                     deleted_records(db_bbox_subscriptions, Take(ids, n))
              /\ db_triples' = deleted_triples(db_triples, Take(ids, n))
              /\ \/ /\ n = Len(ids)
                    /\ uc_out' = SubOut("unsubscribe_all_bboxes", username, <<>>, "Ok")
                 \/ /\ n < Len(ids) \/ n = 0
                    /\ uc_out' = SubOut("unsubscribe_all_bboxes", username, <<>>, "Other")
        /\ UNCHANGED <<db_entries, db_tags, search_out, uc_hist, upd_proc>>
        /\ UNCHANGED <<db_ratings, db_comments, ratingVars, distVars>>
        /\ UNCHANGED <<userVars, textVars, idVars>>

InitSubscribe ==
    /\ IdleUsers /\ IdleText /\ IdleIds
    /\ db_entries = <<>>
    /\ db_tags = {}
    /\ search_out = NoSearch
    /\ IdleRating /\ IdleDist /\ IdleRepo /\ IdleUc

NextSubscribe ==
    \/ \E coordinates \in SubscribeCoordinates, username \in Usernames :
          subscribe_to_bbox(coordinates, username)
    \/ \E username \in Usernames : unsubscribe_all_bboxes(username)

SpecSubscribe == InitSubscribe /\ [][NextSubscribe]_vars

---------------------------------------------------------------------------
(* The inputs of sort.rs and the rating specification *)

RatingEntryIds == {"a", "b", "c"}

\* Rating values of the accepted range [-1, 2]
RatingChoices ==
    { [id |-> id, value |-> v] : id \in {"1", "2"}, v \in {-1, 2} }

\* IsRatedWith triples of two entries, one rating shared, and a triple of
\* another predicate between the same kinds
TripleChoices ==
    { Triple(ObjectId("Entry", "a"), "IsRatedWith", ObjectId("Rating", "1")),
      Triple(ObjectId("Entry", "a"), "IsRatedWith", ObjectId("Rating", "2")),
      Triple(ObjectId("Entry", "b"), "IsRatedWith", ObjectId("Rating", "2")),
      Triple(ObjectId("Entry", "b"), "IsCommentedWith", ObjectId("Rating", "1")) }

\* the entry lists to sort: the entries a, b, c in every order
SortInputs ==
    { s \in [1..Cardinality(RatingEntryIds) -> {EntryBuildId(id) : id \in RatingEntryIds}] :
        \A i, j \in 1..Len(s) : i # j => s[i] # s[j] }

\* entry.average_rating(&ratings, &triples)
call_average_rating(id) ==
    /\ rt_out' = [op |-> "average_rating", entry |-> id, input |-> <<>>,
                  avg |-> average_rating(EntryBuildId(id), rt_ratings, rt_triples),
                  sorted |-> <<>>]
    /\ UNCHANGED <<rt_ratings, rt_triples>>
    /\ UNCHANGED <<searchVars, distVars, repoVars, ucVars>>
    /\ UNCHANGED <<userVars, textVars, idVars>>

\* entries.sort_by_avg_rating(&ratings, &triples)
call_sort_by_avg_rating(entries) ==
    /\ rt_out' = [op |-> "sort_by_avg_rating", entry |-> "", input |-> entries,
                  avg |-> NaN,
                  sorted |-> sort_by_avg_rating(entries, rt_ratings, rt_triples)]
    /\ UNCHANGED <<rt_ratings, rt_triples>>
    /\ UNCHANGED <<searchVars, distVars, repoVars, ucVars>>
    /\ UNCHANGED <<userVars, textVars, idVars>>

InitRating ==
    /\ IdleUsers /\ IdleText /\ IdleIds
    /\ rt_ratings \in SeqsUpTo(RatingChoices, MaxRatings)
    /\ rt_triples \in SeqsUpTo(TripleChoices, MaxTriples)
    /\ rt_out = NoRatingCall
    /\ db_entries = <<>>
    /\ db_tags = {}
    /\ search_out = NoSearch
    /\ IdleDist /\ IdleRepo /\ IdleUc

NextRating ==
    \/ \E id \in RatingEntryIds : call_average_rating(id)
    \/ \E entries \in SortInputs : call_sort_by_avg_rating(entries)

SpecRating == InitRating /\ [][NextRating]_vars

---------------------------------------------------------------------------
(* The inputs of sort_by_distance_to and the distance specification *)

\* coordinates of entries: three finite ones, two of them equally far from
\* (0, 0) and from (1, 1), one with a NaN and one with an infinite longitude
DistCoordinates ==
    { Coordinate(F64FromInt(1), F64FromInt(0)),
      Coordinate(F64FromInt(0), F64FromInt(0)),
      Coordinate(F64FromInt(0), F64FromInt(1)),
      Coordinate(F64FromInt(1), NaN),
      Coordinate(F64FromInt(1), Inf) }

\* reference coordinates: finite ones, one with a NaN latitude and one with
\* an infinite longitude
DistReferences ==
    { Coordinate(F64FromInt(0), F64FromInt(0)),
      Coordinate(F64FromInt(1), F64FromInt(1)),
      Coordinate(NaN, F64FromInt(0)),
      Coordinate(F64FromInt(0), Inf) }

\* the entry lists: every sequence of the coordinates, the id of an entry
\* being its position in the list
DistInputs ==
    { [i \in 1..Len(cs) |-> tests_new_entry(i, cs[i].lat, cs[i].lng)] :
        cs \in SeqsUpTo(DistCoordinates, MaxDistEntries) }

\* entries.sort_by_distance_to(&c): the vector is sorted in place
call_sort_by_distance_to(c) ==
    /\ ds_entries' = sort_by_distance_to(ds_entries, c)
    /\ ds_out' = [called |-> TRUE, c |-> c, input |-> ds_entries,
                  sorted |-> ds_entries']
    /\ UNCHANGED ds_inf_nan
    /\ UNCHANGED <<searchVars, ratingVars, repoVars, ucVars>>
    /\ UNCHANGED <<userVars, textVars, idVars>>

InitDistance ==
    /\ IdleUsers /\ IdleText /\ IdleIds
    /\ ds_inf_nan \in BOOLEAN
    /\ ds_entries \in DistInputs
    /\ ds_out = NoDistCall
    /\ db_entries = <<>>
    /\ db_tags = {}
    /\ search_out = NoSearch
    /\ IdleRating /\ IdleRepo /\ IdleUc

NextDistance ==
    \E c \in DistReferences : call_sort_by_distance_to(c)

SpecDistance == InitDistance /\ [][NextDistance]_vars

---------------------------------------------------------------------------
(* Claims about search, checked under SpecSearch *)

\* the last search call returned Ok((visible, invisible))
SearchReturned == search_out.called /\ search_out.ok

\* the stored entry with the given id
EntryById(id) == CHOOSE e \in Range(db_entries) : e.id = id

\* the position of the entry in the repository's order
DbPos(id) == CHOOSE i \in 1..Len(db_entries) : db_entries[i].id = id

Returned == Range(search_out.visible) \cup Range(search_out.invisible)

\* the coordinate lies in the requested box
InOriginalBox(e, req) ==
    /\ req.bbox[1].lat <= e.lat /\ e.lat <= req.bbox[2].lat
    /\ req.bbox[1].lng <= e.lng /\ e.lng <= req.bbox[2].lng

\* the coordinate lies in the requested box widened by 0.02 lat / 0.04 lng
InExtendedBox(e, req) ==
    /\ req.bbox[1].lat - 2 <= e.lat /\ e.lat <= req.bbox[2].lat + 2
    /\ req.bbox[1].lng - 4 <= e.lng /\ e.lng <= req.bbox[2].lng + 4

PassesCategories(e, req) ==
    req.categories.some =>
        (Range(req.categories.val) \cap Range(e.categories)) # {}

PassesTagsOrText(e, req) ==
    entries_by_tags_or_search_text(req.text, req.tags, e)

\* the entries a request selects before the split into visible / invisible
Candidates(req) ==
    { e \in Range(db_entries) :
        InExtendedBox(e, req) /\ PassesCategories(e, req) /\ PassesTagsOrText(e, req) }

OutsideCandidates(req) == { e \in Candidates(req) : ~ InOriginalBox(e, req) }

\* a comes before b in the stable, descending rating order of the request
RatedBefore(a, b, req) ==
    \/ req.entry_ratings[a] > req.entry_ratings[b]
    \/ /\ req.entry_ratings[a] = req.entry_ratings[b]
       /\ DbPos(a) < DbPos(b)

\* C1: no entry id returned by search is in both the visible and the
\* invisible list.
C1_VisibleInvisibleDisjoint ==
    SearchReturned =>
        Range(search_out.visible) \cap Range(search_out.invisible) = {}

C1_Witness ==
    /\ SearchReturned
    /\ search_out.visible # <<>>
    /\ search_out.invisible # <<>>

\* C2: the invisible list has at most 5 ids, however many filtered entries
\* lie outside the requested box.
C2_InvisibleAtMostFive ==
    SearchReturned => Len(search_out.invisible) <= 5

C2_Witness ==
    /\ SearchReturned
    /\ Cardinality(OutsideCandidates(search_out.req)) > 5
    /\ Len(search_out.invisible) = 5

\* C3: every visible id is the id of an entry inside the requested box, and
\* no invisible id is the id of an entry inside the requested box.
C3_VisibleInsideInvisibleOutside ==
    SearchReturned =>
        /\ \A id \in Range(search_out.visible) :
               InOriginalBox(EntryById(id), search_out.req)
        /\ \A id \in Range(search_out.invisible) :
               ~ InOriginalBox(EntryById(id), search_out.req)

C3_Witness ==
    /\ SearchReturned
    /\ Len(search_out.visible) >= 2
    /\ Len(search_out.invisible) >= 2
    /\ \E e \in Range(db_entries) : ~ InExtendedBox(e, search_out.req)

\* C4: every returned id is the id of an entry inside the extended box
\* (south_west - 0.02 / - 0.04, north_east + 0.02 / + 0.04); an entry outside
\* the extended box is never returned.
C4_ReturnedInsideExtendedBox ==
    SearchReturned =>
        \A e \in Range(db_entries) :
            e.id \in Returned => InExtendedBox(e, search_out.req)

C4_Witness ==
    /\ SearchReturned
    /\ Returned # {}
    /\ \E e \in Range(db_entries) :
           /\ ~ InExtendedBox(e, search_out.req)
           /\ PassesCategories(e, search_out.req)
           /\ PassesTagsOrText(e, search_out.req)
           /\ e.id \notin Returned

OrderedByRating(list, req) ==
    \A p, q \in 1..Len(list) :
        p < q => /\ req.entry_ratings[list[p]] >= req.entry_ratings[list[q]]
                 /\ RatedBefore(list[p], list[q], req)

\* C5: both lists are in non-increasing order of the request's rating lookup,
\* and keep the order of the rating sort (entries of equal rating stay in
\* the repository's order).
C5_ListsOrderedByRating ==
    SearchReturned =>
        /\ OrderedByRating(search_out.visible, search_out.req)
        /\ OrderedByRating(search_out.invisible, search_out.req)

C5_Witness ==
    /\ SearchReturned
    /\ \E p, q \in 1..Len(search_out.visible) :
           /\ p < q
           /\ DbPos(search_out.visible[p]) > DbPos(search_out.visible[q])
    /\ \E p, q \in 1..Len(search_out.invisible) :
           /\ p < q
           /\ DbPos(search_out.invisible[p]) > DbPos(search_out.invisible[q])
    /\ \E p \in 1..(Len(search_out.invisible) - 1) :
           search_out.req.entry_ratings[search_out.invisible[p]]
               = search_out.req.entry_ratings[search_out.invisible[p + 1]]

\* C6: the visible list holds every candidate inside the requested box (it
\* is never truncated), the invisible list is exactly the first min(5, k) of
\* the k other candidates, and a candidate is dropped only if it is outside
\* the requested box and at least 5 other outside candidates precede it in
\* the rating order.
C6_OnlySixthOutsideDropped ==
    SearchReturned =>
        LET req     == search_out.req
            inside  == { e.id : e \in Candidates(req) \ OutsideCandidates(req) }
            outside == { e.id : e \in OutsideCandidates(req) }
            dropped == { e.id : e \in Candidates(req) } \ Returned
        IN  /\ Range(search_out.visible) = inside
            /\ Len(search_out.visible) = Cardinality(inside)
            /\ Range(search_out.invisible) \subseteq outside
            /\ Len(search_out.invisible) = Min(5, Cardinality(outside))
            /\ Cardinality(Range(search_out.invisible)) = Len(search_out.invisible)
            /\ \A d \in dropped :
                   /\ d \in outside
                   /\ Cardinality({ o \in outside : RatedBefore(o, d, req) }) >= 5
                   /\ \A i \in Range(search_out.invisible) : RatedBefore(i, d, req)

C6_Witness ==
    /\ SearchReturned
    /\ search_out.req.categories.some
    /\ \E e \in OutsideCandidates(search_out.req) :
           /\ e.id \notin Returned
           /\ \E i \in Range(search_out.invisible) : DbPos(i) > DbPos(e.id)

\* C7: without a category filter (None) no entry is excluded because of its
\* categories; with Some(S) every returned entry has a category id in S, so
\* Some(empty) returns nothing.
C7_CategoryFilterIffRequested ==
    SearchReturned =>
        LET req == search_out.req
        IN  /\ ~ req.categories.some =>
                \A e \in Range(db_entries) :
                    (InOriginalBox(e, req) /\ PassesTagsOrText(e, req))
                        => e.id \in Range(search_out.visible)
            /\ req.categories.some =>
                \A id \in Returned :
                    (Range(EntryById(id).categories) \cap Range(req.categories.val)) # {}
            /\ (req.categories.some /\ req.categories.val = <<>>) => Returned = {}

C7_Witness ==
    /\ SearchReturned
    /\ search_out.req.categories.some
    /\ search_out.req.categories.val # <<>>
    /\ Returned # {}
    /\ \E e \in Range(db_entries) :
           /\ InExtendedBox(e, search_out.req)
           /\ PassesTagsOrText(e, search_out.req)
           /\ e.id \notin Returned
           /\ (Range(e.categories) \cap Range(search_out.req.categories.val)) = {}

---------------------------------------------------------------------------
(* Claims about sort.rs, checked under SpecRating *)

\* the supplied ratings linked to the entry by an IsRatedWith triple
LinkedRatingIndices(id) ==
    { i \in 1..Len(rt_ratings) :
        \E k \in 1..Len(rt_triples) :
            rt_triples[k] = Triple(ObjectId("Entry", id), "IsRatedWith",
                                   ObjectId("Rating", rt_ratings[i].id)) }

RECURSIVE SumOfValues(_)
SumOfValues(I) ==
    IF I = {} THEN 0
    ELSE LET i == CHOOSE i \in I : TRUE
         IN  rt_ratings[i].value + SumOfValues(I \ {i})

\* x >= y for two finite f64 values
F64Geq(x, y) == x.num * y.den >= y.num * x.den

\* C8: for an entry with no rating linked to it by an IsRatedWith triple,
\* average_rating returns exactly 0.0, never NaN.
C8_UnratedAverageIsZero ==
    (rt_out.op = "average_rating" /\ LinkedRatingIndices(rt_out.entry) = {})
        => (rt_out.avg = [num |-> 0, den |-> 1] /\ rt_out.avg # NaN)

C8_Witness ==
    /\ rt_out.op = "average_rating"
    /\ rt_ratings # <<>>
    /\ rt_triples # <<>>
    /\ \A k \in 1..Len(rt_triples) : rt_triples[k].subject.id # rt_out.entry
    /\ rt_out.avg = [num |-> 0, den |-> 1]

\* C9: average_rating is the arithmetic mean (sum / count) of the values of
\* exactly the supplied ratings linked to the entry by an IsRatedWith triple;
\* triples of absent ratings and repeated triples do not change it.
C9_AverageIsMeanOfLinked ==
    (rt_out.op = "average_rating" /\ LinkedRatingIndices(rt_out.entry) # {})
        => LET I == LinkedRatingIndices(rt_out.entry)
           IN  rt_out.avg = F64Div(SumOfValues(I), Cardinality(I))

\* C10: sort_by_avg_rating returns a permutation of its input in
\* non-increasing order of average_rating, and entries of equal average
\* keep their input order.
C10_SortStableDescending ==
    rt_out.op = "sort_by_avg_rating" =>
        LET in   == rt_out.input
            out  == rt_out.sorted
            avg(e) == average_rating(e, rt_ratings, rt_triples)
            InPos(e) == CHOOSE i \in 1..Len(in) : in[i] = e
        IN  /\ Len(out) = Len(in)
            /\ Range(out) = Range(in)
            /\ \A p, q \in 1..Len(out) :
                   p < q =>
                       /\ F64Geq(avg(out[p]), avg(out[q]))
                       /\ avg(out[p]) = avg(out[q]) => InPos(out[p]) < InPos(out[q])

C10_Witness ==
    /\ rt_out.op = "sort_by_avg_rating"
    /\ Len(rt_out.input) = 3
    /\ rt_out.sorted # rt_out.input
    /\ \E p \in 1..2 :
           average_rating(rt_out.sorted[p], rt_ratings, rt_triples)
               = average_rating(rt_out.sorted[p + 1], rt_ratings, rt_triples)
    /\ \E p \in 1..2 :
           average_rating(rt_out.sorted[p], rt_ratings, rt_triples)
               # average_rating(rt_out.sorted[p + 1], rt_ratings, rt_triples)

---------------------------------------------------------------------------
(* Claims about sort_by_distance_to, checked under SpecDistance *)

\* the last call had a finite reference coordinate
DistSorted ==
    ds_out.called /\ is_finite(ds_out.c.lat) /\ is_finite(ds_out.c.lng)

\* lat and lng of the entry are both finite
EntryFinite(e) == is_finite(e.lat) /\ is_finite(e.lng)

\* C11: for a finite reference coordinate, sort_by_distance_to returns a
\* permutation of its input in which every entry with a non-finite lat or lng
\* comes after every entry whose lat and lng are finite
C11_NonFiniteAfterFinite ==
    DistSorted =>
        /\ Len(ds_out.sorted) = Len(ds_out.input)
        /\ Range(ds_out.sorted) = Range(ds_out.input)
        /\ \A i, j \in 1..Len(ds_out.sorted) :
               (~ EntryFinite(ds_out.sorted[i]) /\ EntryFinite(ds_out.sorted[j]))
                   => j < i

\* a NaN and an infinite coordinate stood before a finite one in the input
C11_Witness ==
    /\ DistSorted
    /\ \E i, j, k \in 1..Len(ds_out.input) :
           /\ i < k /\ j < k
           /\ is_nan(ds_out.input[i].lng)
           /\ ds_out.input[j].lng = Inf
           /\ EntryFinite(ds_out.input[k])
    /\ ds_out.sorted # ds_out.input

\* C12: for a finite reference coordinate, the entries with finite
\* coordinates are in non-decreasing order of their distance to it in the
\* result, whatever entries with non-finite coordinates the list holds
C12_FiniteAscendingByDistance ==
    DistSorted =>
        \A i, j \in 1..Len(ds_out.sorted) :
            (i < j /\ EntryFinite(ds_out.sorted[i]) /\ EntryFinite(ds_out.sorted[j]))
                => F64Geq(distance_to(ds_out.sorted[j], ds_out.c),
                          distance_to(ds_out.sorted[i], ds_out.c))

\* two finite entries in descending order of distance with a non-finite
\* entry between them in the input
C12_Witness ==
    /\ DistSorted
    /\ \E i, j, k \in 1..Len(ds_out.input) :
           /\ i < j /\ j < k
           /\ EntryFinite(ds_out.input[i])
           /\ ~ EntryFinite(ds_out.input[j])
           /\ EntryFinite(ds_out.input[k])
           /\ ~ F64Geq(distance_to(ds_out.input[k], ds_out.c),
                       distance_to(ds_out.input[i], ds_out.c))

\* C27: for a reference coordinate whose lat or lng is not finite,
\* sort_by_distance_to leaves the list as it was, the same entries in the
\* same order, whatever order and whatever invalid entries the list has
C27_NonFiniteReferenceLeavesList ==
    (ds_out.called /\ ~ (is_finite(ds_out.c.lat) /\ is_finite(ds_out.c.lng)))
        => /\ ds_out.sorted = ds_out.input
           /\ ds_entries = ds_out.input

\* the reference has an infinite longitude; the list is one that a finite
\* reference reorders: an invalid entry first, then two finite entries
\* with the farther one first
C27_Witness ==
    /\ ds_out.called
    /\ is_finite(ds_out.c.lat) /\ ~ is_finite(ds_out.c.lng)
    /\ Len(ds_out.input) = 3
    /\ ~ EntryFinite(ds_out.input[1])
    /\ EntryFinite(ds_out.input[2]) /\ EntryFinite(ds_out.input[3])
    /\ sort_by_distance_to(ds_out.input, Coordinate(F64FromInt(0), F64FromInt(0)))
           # ds_out.input
    /\ ds_entries = ds_out.input

---------------------------------------------------------------------------
(* Claims about the entry life cycle, checked under SpecLife *)

\* the last call was update_entry, get_entry returned the stored entry, and
\* the submitted version was not the stored version + 1
UpdateConflict(out) ==
    /\ out.op = "update_entry"
    /\ out.old.some
    /\ out.version # out.old.val + 1

\* C13: an update_entry call whose submitted version differs from the stored
\* version + 1 returns InvalidVersion and leaves the stored entries and the
\* tag set as they were
C13_VersionConflictRejected ==
    [][ UpdateConflict(uc_out')
          => (uc_out'.result = "InvalidVersion"
              /\ db_entries' = db_entries /\ db_tags' = db_tags) ]_vars

\* a conflicting call has returned: the submitted version was higher by two,
\* and another entry had been updated before
C13_Witness ==
    /\ UpdateConflict(uc_out)
    /\ uc_out.version >= uc_out.old.val + 2
    /\ uc_out.result = "InvalidVersion"
    /\ \E i \in 1..Len(db_entries) : db_entries[i].version > 0

\* C14: the stored version of every entry is the number of update_entry
\* calls on it that returned Ok: 0 after create_new_entry, one more after
\* each successful update, unchanged by every failing call
C14_VersionCountsUpdates ==
    /\ Len(uc_hist) = Len(db_entries)
    /\ \A i \in 1..Len(db_entries) :
           /\ db_entries[i].id = uc_hist[i].id
           /\ db_entries[i].version = uc_hist[i].updates

\* an entry was updated, another one was not, and the last update_entry call
\* failed after the version check
C14_Witness ==
    /\ \E i, j \in 1..Len(db_entries) :
           db_entries[i].version = MaxVersion /\ db_entries[j].version = 0
    /\ uc_out.op = "update_entry"
    /\ uc_out.result = "Other"
    /\ uc_out.old.some

\* C15: every stored entry has the license and the id it was created with,
\* whatever update_entry calls succeeded on it
C15_LicenseCarriedForward ==
    /\ Len(uc_hist) = Len(db_entries)
    /\ \A i \in 1..Len(db_entries) :
           /\ db_entries[i].license = Some(uc_hist[i].license)
           /\ db_entries[i].id = i
           /\ uc_hist[i].id = i

\* two entries created with different licenses have both been updated
C15_Witness ==
    \E i, j \in 1..Len(db_entries) :
        /\ db_entries[i].version > 0 /\ db_entries[j].version > 0
        /\ db_entries[i].title = "w3" /\ db_entries[j].title = "w3"
        /\ db_entries[i].license # db_entries[j].license

---------------------------------------------------------------------------
(* Claim about concurrent update_entry calls, checked under SpecConcurrent *)

\* C16: of two update_entry calls that submitted the same version for the
\* same entry, at most one has returned Ok; the conflict is detected and no
\* successful update is overwritten
C16_ConflictingUpdatesDetected ==
    \A p, q \in Writers :
        (/\ p # q
         /\ upd_proc[p].pc = "done" /\ upd_proc[q].pc = "done"
         /\ upd_proc[p].req.id = upd_proc[q].req.id
         /\ upd_proc[p].req.version = upd_proc[q].req.version)
            => ~ (upd_proc[p].result = "Ok" /\ upd_proc[q].result = "Ok")

---------------------------------------------------------------------------
(* Claims about rate_entry, checked under SpecRate *)

\* the last call was rate_entry and get_entry returned the entry
RatedExisting(out) == out.op = "rate_entry" /\ out.found

\* C17: for an existing entry, rate_entry returns EmptyComment for an empty
\* comment and RatingValue for a value outside [-1, 2] (the comment being
\* checked first), creating no rating, comment or triple in either case;
\* a value of -1, 0, 1 or 2 with a non-empty comment gets neither error
C17_RatingParametersChecked ==
    [][ RatedExisting(uc_out') =>
          /\ (uc_out'.comment = "")
                => (uc_out'.result = "EmptyComment"
                    /\ UNCHANGED <<db_ratings, db_comments, db_triples>>)
          /\ (uc_out'.comment # "" /\ (uc_out'.value < -1 \/ uc_out'.value > 2))
                => (uc_out'.result = "RatingValue"
                    /\ UNCHANGED <<db_ratings, db_comments, db_triples>>)
          /\ (uc_out'.comment # "" /\ uc_out'.value \in {-1, 0, 1, 2})
                => uc_out'.result \notin {"EmptyComment", "RatingValue"} ]_vars

\* the value 3 was refused after a rating had been stored
C17_Witness ==
    /\ RatedExisting(uc_out)
    /\ uc_out.value = 3
    /\ uc_out.comment # ""
    /\ uc_out.result = "RatingValue"
    /\ db_ratings # <<>>

\* C18: a rate_entry call that returns Ok has added one rating with the
\* entry and the value of the request, one comment with its text and the
\* triple (Rating, IsCommentedWith, Comment) of the two, and
\* get_comment_ids_for_rating_id of the new rating is the new comment alone
C18_RatingCommentTripleCreated ==
    [][ (uc_out'.op = "rate_entry" /\ uc_out'.result = "Ok") =>
          /\ Len(db_ratings') = Len(db_ratings) + 1
          /\ Len(db_comments') = Len(db_comments) + 1
          /\ Len(db_triples') = Len(db_triples) + 1
          /\ SubSeq(db_ratings', 1, Len(db_ratings)) = db_ratings
          /\ SubSeq(db_comments', 1, Len(db_comments)) = db_comments
          /\ SubSeq(db_triples', 1, Len(db_triples)) = db_triples
          /\ LET rating == db_ratings'[Len(db_ratings')]
                 comment == db_comments'[Len(db_comments')]
                 triple == db_triples'[Len(db_triples')]
             IN  /\ rating.entry_id = uc_out'.entry
                 /\ rating.value = uc_out'.value
                 /\ comment.text = uc_out'.comment
                 /\ \A i \in 1..Len(db_ratings) : db_ratings[i].id # rating.id
                 /\ \A i \in 1..Len(db_comments) : db_comments[i].id # comment.id
                 /\ triple = Triple(ObjectId("Rating", rating.id), "IsCommentedWith",
                                    ObjectId("Comment", comment.id))
                 /\ get_comment_ids_for_rating_id(db_triples', rating.id)
                        = << comment.id >> ]_vars

\* a call has returned Ok
C18_Witness ==
    /\ uc_out.op = "rate_entry"
    /\ uc_out.result = "Ok"
    /\ Len(db_ratings) = MaxStoredRatings
    /\ Len(db_triples) = MaxStoredRatings

\* C19: for every stored rating r there is a stored triple
\* (Entry(r.entry_id), IsRatedWith, Rating(r.id))
C19_RatingsLinkedByIsRatedWith ==
    \A i \in 1..Len(db_ratings) :
        \E j \in 1..Len(db_triples) :
            db_triples[j] = Triple(ObjectId("Entry", db_ratings[i].entry_id),
                                   "IsRatedWith",
                                   ObjectId("Rating", db_ratings[i].id))

\* C29: in every state reached by rate_entry calls whose repository calls
\* may fail, every stored rating has a stored comment linked to it by an
\* IsCommentedWith triple, every stored comment is linked to a stored rating,
\* and after a call that returned an error there is no rating without its
\* comment and no comment without its rating
C29_RateEntryAllOrNothing ==
    /\ \A i \in 1..Len(db_ratings) :
           get_comments_by_rating_id(db_triples, db_comments, db_ratings[i].id)
               # <<>>
    /\ \A k \in 1..Len(db_comments) :
           \E i \in 1..Len(db_ratings) :
               \E m \in 1..Len(get_comment_ids_for_rating_id(db_triples,
                                                             db_ratings[i].id)) :
                   get_comment_ids_for_rating_id(db_triples, db_ratings[i].id)[m]
                       = db_comments[k].id

---------------------------------------------------------------------------
(* Claim about the subscriptions, checked under SpecSubscribe *)

\* the SubscribedTo triples with the user as subject
SubscribedToTriples(username) ==
    SelectSeq(db_triples, LAMBDA triple :
        triple.subject = ObjectId("User", username)
        /\ triple.predicate = "SubscribedTo")

\* C20: a user has at most one SubscribedTo triple and get_bbox_subscriptions
\* returns at most one subscription for the user; after a subscribe_to_bbox
\* call that returned Ok it returns exactly one, with the box of that call
C20_AtMostOneSubscription ==
    /\ \A username \in Usernames :
           /\ Len(SubscribedToTriples(username)) <= 1
           /\ Len(get_bbox_subscriptions(username, db_triples,
                                         db_bbox_subscriptions)) <= 1
    /\ (uc_out.op = "subscribe_to_bbox" /\ uc_out.result = "Ok") =>
           get_bbox_subscriptions(uc_out.username, db_triples, db_bbox_subscriptions)
               = << [id |-> user_subscriptions(db_triples, uc_out.username)[1],
                     south_west_lat |-> uc_out.coordinates[1].lat,
                     south_west_lng |-> uc_out.coordinates[1].lng,
                     north_east_lat |-> uc_out.coordinates[2].lat,
                     north_east_lng |-> uc_out.coordinates[2].lng] >>

\* a user has replaced a subscription by one with another box while another
\* user holds one
C20_Witness ==
    /\ uc_out.op = "subscribe_to_bbox"
    /\ uc_out.result = "Ok"
    /\ uc_out.coordinates = NorthernBbox
    /\ Len(db_bbox_subscriptions) = 2
    /\ \A username \in Usernames : Len(SubscribedToTriples(username)) = 1
    /\ \E i \in 1..Len(db_bbox_subscriptions) :
           db_bbox_subscriptions[i].id > 2

\* the SubscribedTo triples among the given ones with the user as subject
SubscribedToOf(triples, username) ==
    SelectSeq(triples, LAMBDA triple :
        triple.subject = ObjectId("User", username)
        /\ triple.predicate = "SubscribedTo")

\* the step leaves the triples and the subscriptions of every user but
\* username as they were and removes no record that username did not hold
OthersUntouched(username) ==
    /\ \A other \in Usernames \ {username} :
           /\ SubscribedToOf(db_triples', other) = SubscribedToOf(db_triples, other)
           /\ get_bbox_subscriptions(other, db_triples', db_bbox_subscriptions')
                  = get_bbox_subscriptions(other, db_triples, db_bbox_subscriptions)
    /\ \A i \in 1..Len(db_bbox_subscriptions) :
           (\A k \in 1..Len(db_bbox_subscriptions') :
                db_bbox_subscriptions'[k].id # db_bbox_subscriptions[i].id)
               => \E m \in 1..Len(SubscribedToOf(db_triples, username)) :
                      SubscribedToOf(db_triples, username)[m].object.id
                          = db_bbox_subscriptions[i].id

\* C26: after an unsubscribe_all_bboxes(u) call that returned Ok,
\* get_bbox_subscriptions(u) is empty and no SubscribedTo triple has u as
\* subject; that call, and every subscribe_to_bbox call of u, leaves the
\* triples and subscriptions of the other users as they were
C26_UnsubscribeOnlyOwn ==
    [][ /\ (uc_out'.op = "unsubscribe_all_bboxes" /\ uc_out'.result = "Ok") =>
              /\ get_bbox_subscriptions(uc_out'.username, db_triples',
                                        db_bbox_subscriptions') = <<>>
              /\ SubscribedToOf(db_triples', uc_out'.username) = <<>>
        /\ uc_out'.op \in {"unsubscribe_all_bboxes", "subscribe_to_bbox"} =>
              OthersUntouched(uc_out'.username) ]_vars

\* a user has unsubscribed while the other user holds the subscription that
\* was created second
C26_Witness ==
    /\ uc_out.op = "unsubscribe_all_bboxes"
    /\ uc_out.result = "Ok"
    /\ SubscribedToTriples(uc_out.username) = <<>>
    /\ Len(db_bbox_subscriptions) = 1
    /\ db_bbox_subscriptions[1].id = 2
    /\ \E other \in Usernames \ {uc_out.username} :
           get_bbox_subscriptions(other, db_triples, db_bbox_subscriptions)
               = db_bbox_subscriptions

---------------------------------------------------------------------------
(* infrastructure/web/mod.rs: the hashtags of a search text.  A text is the
   sequence of its characters. *)

\* pieces a text is put together from at most
MaxTextPieces == 7

\* \w of the regular expression, over the characters of the model
is_word_char(ch) == ch = "a"

\* the length of the longest run of word characters that starts at i: \w+
RECURSIVE word_run(_, _)
word_run(text, i) ==
    IF i <= Len(text) /\ is_word_char(text[i]) THEN 1 + word_run(text, i + 1)
    ELSE 0

\* the length of the longest match of (-\w+)* that starts at j
RECURSIVE hyphen_groups(_, _)
hyphen_groups(text, j) ==
    IF j <= Len(text) /\ text[j] = "-" /\ word_run(text, j + 1) > 0
    THEN 1 + word_run(text, j + 1)
           + hyphen_groups(text, j + 1 + word_run(text, j + 1))
    ELSE 0

\* the length of the match of \w+((-\w+)*)? that starts at i, 0 if none
tag_len(text, i) ==
    IF word_run(text, i) = 0 THEN 0
    ELSE word_run(text, i) + hyphen_groups(text, i + word_run(text, i))

\* HASH_TAG_REGEX.captures_iter: the matches of #(?P<tag>...) from left to
\* right, none overlapping another; at is the place of the '#'
RECURSIVE hash_tag_matches(_, _)
hash_tag_matches(text, i) ==
    IF i > Len(text) THEN <<>>
    ELSE IF text[i] = "#" /\ tag_len(text, i + 1) > 0
         THEN << [at |-> i, len |-> tag_len(text, i + 1)] >>
                  \o hash_tag_matches(text, i + 1 + tag_len(text, i + 1))
         ELSE hash_tag_matches(text, i + 1)

\* extract_hash_tags: the group "tag" of every match
extract_hash_tags(text) ==
    LET ms == hash_tag_matches(text, 1)
    IN  [k \in 1..Len(ms) |-> SubSeq(text, ms[k].at + 1, ms[k].at + ms[k].len)]

\* HASH_TAG_REGEX.replace_all(text, ""): the text without its matches
RECURSIVE replace_all_hash_tags(_, _)
replace_all_hash_tags(text, i) ==
    IF i > Len(text) THEN <<>>
    ELSE IF text[i] = "#" /\ tag_len(text, i + 1) > 0
         THEN replace_all_hash_tags(text, i + 1 + tag_len(text, i + 1))
         ELSE << text[i] >> \o replace_all_hash_tags(text, i + 1)

\* str::replace("  ", " "): one pass from left to right, every match of two
\* spaces that does not overlap an earlier match becomes one space
RECURSIVE replace_double_space(_)
replace_double_space(s) ==
    IF Len(s) < 2 THEN s
    ELSE IF s[1] = " " /\ s[2] = " "
         THEN << " " >> \o replace_double_space(SubSeq(s, 3, Len(s)))
         ELSE << s[1] >> \o replace_double_space(Tail(s))

\* str::trim: white space at both ends removed
RECURSIVE trim_start(_)
trim_start(s) == IF s # <<>> /\ Head(s) = " " THEN trim_start(Tail(s)) ELSE s

RECURSIVE trim_end(_)
trim_end(s) ==
    IF s # <<>> /\ s[Len(s)] = " " THEN trim_end(SubSeq(s, 1, Len(s) - 1)) ELSE s

trim(s) == trim_end(trim_start(s))

\* remove_hash_tags
remove_hash_tags(text) ==
    trim(replace_double_space(replace_all_hash_tags(text, 1)))

\* the pieces of the texts: a word, a space, a hashtag, a hyphen, a bare '#'
TextPieces == { <<"a">>, <<" ">>, <<"#", "a">>, <<"-">>, <<"#">> }

RECURSIVE Concat(_)
Concat(pieces) ==
    IF pieces = <<>> THEN <<>> ELSE Head(pieces) \o Concat(Tail(pieces))

\* the search texts: every concatenation of at most n pieces
SearchTexts(n) == { Concat(pieces) : pieces \in SeqsUpTo(TextPieces, n) }

\* get_search: tags = extract_hash_tags(txt), then remove_hash_tags(&t)
call_hash_tags ==
    /\ ~ ht_out.called
    /\ ht_out' = [called |-> TRUE, tags |-> extract_hash_tags(ht_text),
                  text |-> remove_hash_tags(ht_text)]
    /\ UNCHANGED ht_text
    /\ UNCHANGED <<searchVars, ratingVars, distVars, repoVars, ucVars>>
    /\ UNCHANGED <<userVars, idVars>>

InitHashTags ==
    /\ ht_text \in SearchTexts(MaxTextPieces)
    /\ ht_out = NoHashTagCall
    /\ db_entries = <<>>
    /\ db_tags = {}
    /\ search_out = NoSearch
    /\ IdleRating /\ IdleDist /\ IdleRepo /\ IdleUc /\ IdleUsers /\ IdleIds

NextHashTags == call_hash_tags

SpecHashTags == InitHashTags /\ [][NextHashTags]_vars

---------------------------------------------------------------------------
(* Claim about the hashtags, checked under SpecHashTags *)

\* s has two spaces in a row
HasDoubleSpace(s) == \E i \in 1..(Len(s) - 1) : s[i] = " " /\ s[i + 1] = " "

\* tag has the shape word(-word)*
TagShaped(tag) == tag # <<>> /\ tag_len(tag, 1) = Len(tag)

\* the tags stand in the text from position i on, each after a '#', in the
\* order of the list
RECURSIVE FollowHashesInOrder(_, _, _)
FollowHashesInOrder(tags, text, i) ==
    IF tags = <<>> THEN TRUE
    ELSE \E at \in i..Len(text) :
             /\ text[at] = "#"
             /\ at + Len(Head(tags)) <= Len(text)
             /\ SubSeq(text, at + 1, at + Len(Head(tags))) = Head(tags)
             /\ FollowHashesInOrder(Tail(tags), text, at + 1)

\* C22: extract_hash_tags returns, in the order of the text, bodies of the
\* shape word(-word)* that follow a '#' in it, and remove_hash_tags returns
\* a text with no hashtag left in it, trimmed, and, when the text handed in
\* has no double space, with no double space
C22_HashTagsExtractedAndStripped ==
    ht_out.called =>
        /\ \A k \in 1..Len(ht_out.tags) : TagShaped(ht_out.tags[k])
        /\ FollowHashesInOrder(ht_out.tags, ht_text, 1)
        /\ extract_hash_tags(ht_out.text) = <<>>
        /\ ht_out.text = trim(ht_out.text)
        /\ ~ HasDoubleSpace(ht_text) => ~ HasDoubleSpace(ht_out.text)

---------------------------------------------------------------------------
(* business/usecase/mod.rs: triple_id.  A String is the sequence of its
   pieces: the names of the kinds and of the predicates, the separator "-"
   and the letter "q".  No name holds a "-" or a "q", so two Strings are
   equal exactly when their sequences of pieces are. *)

\* s_type, o_type: the name of the variant of an ObjectId
object_type(kind) ==
    CASE kind = "Entry" -> "entry"
      [] kind = "Tag" -> "tag"
      [] kind = "User" -> "user"
      [] kind = "Comment" -> "comment"
      [] kind = "Rating" -> "rating"
      [] kind = "BboxSubscription" -> "bbox_subscription"

\* p_type: the name of the Relation
p_type(predicate) ==
    CASE predicate = "IsCommentedWith" -> "is_commented_with"
      [] predicate = "CreatedBy" -> "created_by"
      [] predicate = "SubscribedTo" -> "subscribed_to"

\* format!("{}-{}-{}-{}-{}", s_type, s_id, p_type, o_type, o_id)
triple_id(t) ==
    << object_type(t.subject.kind), "-" >> \o t.subject.id
        \o << "-", p_type(t.predicate), "-", object_type(t.object.kind), "-" >>
        \o t.object.id

\* the kinds and predicates of the triples handed to triple_id
TripleIdKinds == {"User", "BboxSubscription"}
TripleIdRelations == {"CreatedBy", "SubscribedTo"}

\* the ids: the word q, and two words joined by a separator, the name of
\* a predicate, a separator, the name of a kind and a separator, as a name
\* chosen by a user may be
TripleIdStrings ==
    { <<"q">> }
    \cup { <<"q", "-", p_type(predicate), "-", object_type(kind), "-", "q">> :
              predicate \in TripleIdRelations, kind \in TripleIdKinds }

TripleIdInputs ==
    { Triple(ObjectId(s_kind, s_id), predicate, ObjectId(o_kind, o_id)) :
        s_kind \in TripleIdKinds, s_id \in TripleIdStrings,
        predicate \in TripleIdRelations,
        o_kind \in TripleIdKinds, o_id \in TripleIdStrings }

\* Id::id of the two triples
call_triple_id ==
    /\ ti_out = <<>>
    /\ ti_out' = << triple_id(ti_triples[1]), triple_id(ti_triples[2]) >>
    /\ UNCHANGED ti_triples
    /\ UNCHANGED <<searchVars, ratingVars, distVars, repoVars, ucVars>>
    /\ UNCHANGED <<userVars, textVars>>

InitTripleId ==
    /\ ti_triples \in TripleIdInputs \X TripleIdInputs
    /\ ti_out = <<>>
    /\ db_entries = <<>>
    /\ db_tags = {}
    /\ search_out = NoSearch
    /\ IdleRating /\ IdleDist /\ IdleRepo /\ IdleUc /\ IdleUsers /\ IdleText

NextTripleId == call_triple_id

SpecTripleId == InitTripleId /\ [][NextTripleId]_vars

---------------------------------------------------------------------------
(* Claim about triple_id, checked under SpecTripleId *)

\* C28: two triples have the same triple_id exactly when they have the same
\* subject, predicate and object, whatever their ids hold
C28_TripleIdInjective ==
    ti_out # <<>> =>
        ((ti_out[1] = ti_out[2]) <=> (ti_triples[1] = ti_triples[2]))

---------------------------------------------------------------------------
(* business/usecase/mod.rs: the users *)

\* Db::get_user: the first stored user with the username, NotFound if none
db_get_user(users, username) ==
    LET found == SelectSeq(users, LAMBDA u : u.username = username)
    IN  IF found = <<>> THEN None ELSE Some(Head(found))

\* Db::create_user: the user is stored after the others
db_create_user(users, user) == Append(users, user)

\* validate::username, validate::password, validate::email: an empty
\* string is refused
validate_username(username) == username # ""
validate_password(password) == password # ""
validate_email(email) == email # ""

\* bcrypt::hash and bcrypt::verify: a hash verifies the password it was
\* made from and no other
bcrypt_hash(password) == [bcrypt |-> password]
bcrypt_verify(password, hash) == hash = bcrypt_hash(password)

\* Uuid::new_v4() for a user: an id that no stored user and no triple holds
UserIdPool == [k \in 1..(MaxUsers + MaxSubscriptions + 1) |-> "i" \o ToString(k)]

fresh_user_id(users, triples) ==
    LET used == {users[i].id : i \in 1..Len(users)}
                \cup {triples[i].subject.id : i \in 1..Len(triples)}
        k == CHOOSE k \in 1..Len(UserIdPool) :
                 /\ UserIdPool[k] \notin used
                 /\ \A m \in 1..(k - 1) : UserIdPool[m] \in used
    IN  UserIdPool[k]

\* the User handed to create_user
user_of(u, id) ==
    [id |-> id, username |-> u.username, password |-> bcrypt_hash(u.password),
     email |-> u.email, email_confirmed |-> FALSE]

\* variant: the email flag is looked at before the password
LoginResultConfirmedFirst(u, password) ==
    IF ~ u.email_confirmed THEN "EmailNotConfirmed"
    ELSE IF bcrypt_verify(password, u.password) THEN "Ok"
    ELSE "Credentials"

\* login, for the user that get_user returned
login_result(u, password) ==
    IF bcrypt_verify(password, u.password)
    THEN IF u.email_confirmed THEN "Ok" ELSE "EmailNotConfirmed"
    ELSE "Credentials"

\* Responder for AppError: the HTTP status of a use-case result
respond_to(result) ==
    CASE result = "Ok" -> 200
      [] result = "Credentials" -> 401
      [] result \in {"EmailNotConfirmed", "UserExists", "Invalid", "Forbidden"} -> 400
      [] result = "NotFound" -> 404
      [] OTHER -> 500

\* one repository call and its outcome: Ok, NotFound or Other
DbCall(call, result) == [call |-> call, result |-> result]

\* what a use case on users leaves in uc_out: the request, the return
\* value and, for login, the id returned
UserOut(op, username, password, email, result, id) ==
    [op |-> op, username |-> username, password |-> password, email |-> email,
     result |-> result, id |-> id]

\* create_new_user: the three validations, get_user, bcrypt::hash,
\* create_user.  get_user(..).is_ok() is false for every Err, NotFound or
\* not; a repository call may fail
create_new_user(u) ==
    LET out(result) ==
            UserOut("create_new_user", u.username, u.password, u.email, result, "")
        got == db_get_user(db_users, u.username)
        valid == /\ validate_username(u.username)
                 /\ validate_password(u.password)
                 /\ validate_email(u.email)
    IN  /\ \/ /\ ~ valid
              /\ uc_out' = out("Invalid")
              /\ db_calls' = <<>>
              /\ UNCHANGED db_users
           \/ /\ valid
              /\ got.some
              /\ uc_out' = out("UserExists")
              /\ db_calls' = << DbCall("get_user", "Ok") >>
              /\ UNCHANGED db_users
           \/ /\ valid
              /\ \E err \in (IF got.some THEN {"Other"} ELSE {"NotFound", "Other"}) :
                    \/ /\ uc_out' = out("Pwhash")
                       /\ db_calls' = << DbCall("get_user", err) >>
                       /\ UNCHANGED db_users
                    \/ /\ uc_out' = out("Other")
                       /\ db_calls' = << DbCall("get_user", err),
                                         DbCall("create_user", "Other") >>
                       /\ UNCHANGED db_users
                    \/ /\ Len(db_users) < MaxUsers
                       /\ db_users' = db_create_user(db_users,
                              user_of(u, fresh_user_id(db_users, db_triples)))
                       /\ uc_out' = out("Ok")
                       /\ db_calls' = << DbCall("get_user", err),
                                         DbCall("create_user", "Ok") >>
        /\ UNCHANGED <<searchVars, ratingVars, distVars, repoVars>>
        /\ UNCHANGED <<uc_hist, upd_proc, textVars, idVars>>

\* the address is confirmed through the link of the confirmation mail
confirm_email_address(u_id) ==
    /\ \E i \in 1..Len(db_users) :
           /\ db_users[i].id = u_id
           /\ ~ db_users[i].email_confirmed
           /\ db_users' = [db_users EXCEPT ![i].email_confirmed = TRUE]
    /\ uc_out' = UserOut("confirm_email_address", "", "", "", "Ok", u_id)
    /\ db_calls' = <<>>
    /\ UNCHANGED <<searchVars, ratingVars, distVars, repoVars>>
    /\ UNCHANGED <<uc_hist, upd_proc, textVars, idVars>>

\* login: get_user, then the password, then the email flag; NotFound is
\* turned into Credentials, every other error of get_user is wrapped
login(l) ==
    LET out(result, id) == UserOut("login", l.username, l.password, "", result, id)
        got == db_get_user(db_users, l.username)
    IN  /\ \/ /\ got.some
              /\ uc_out' = out(login_result(got.val, l.password),
                               IF login_result(got.val, l.password) = "Ok"
                               THEN got.val.id ELSE "")
              /\ db_calls' = << DbCall("get_user", "Ok") >>
           \/ /\ ~ got.some
              /\ uc_out' = out("Credentials", "")
              /\ db_calls' = << DbCall("get_user", "NotFound") >>
           \/ /\ uc_out' = out("Other", "")
              /\ db_calls' = << DbCall("get_user", "Other") >>
        /\ UNCHANGED <<searchVars, ratingVars, distVars, repoVars>>
        /\ UNCHANGED <<db_users, uc_hist, upd_proc, textVars, idVars>>

\* the NewUser requests: two names, two passwords, an address and an empty
\* address, which validate::email refuses
NewUserInputs ==
    { [username |-> username, password |-> password, email |-> email] :
        username \in Usernames, password \in {"p1", "p2"}, email \in {"e1", ""} }

\* the Login requests
LoginInputs ==
    { [username |-> username, password |-> password] :
        username \in Usernames, password \in {"p1", "p2"} }

InitUsers ==
    /\ db_entries = <<>>
    /\ db_tags = {}
    /\ search_out = NoSearch
    /\ IdleRating /\ IdleDist /\ IdleRepo /\ IdleUc
    /\ IdleUsers /\ IdleText /\ IdleIds

NextUsers ==
    \/ \E u \in NewUserInputs : create_new_user(u)
    \/ \E u_id \in Range(UserIdPool) : confirm_email_address(u_id)
    \/ \E l \in LoginInputs : login(l)

SpecUsers == InitUsers /\ [][NextUsers]_vars

---------------------------------------------------------------------------
(* Claims about the users, checked under SpecUsers *)

\* the outcome of the get_user call of the last use-case call
GetUserOutcome == db_calls[1].result

\* C23: in create_new_user and login, a repository call that fails with an
\* error other than NotFound is the last repository call of the use case,
\* no call is made twice, and the use case does not return Ok
C23_RepositoryFailurePropagates ==
    uc_out.op \in {"create_new_user", "login"} =>
        /\ \A i \in 1..Len(db_calls) :
               db_calls[i].result = "Other" =>
                   /\ i = Len(db_calls)
                   /\ uc_out.result # "Ok"
        /\ \A i, j \in 1..Len(db_calls) :
               i # j => db_calls[i].call # db_calls[j].call

\* C24: login returns Ok with the id of the stored user only for a stored
\* user name, the password of that user and a confirmed address; it returns
\* Credentials for an unknown user name and for a wrong password alike,
\* whatever the email flag; it returns EmailNotConfirmed only for the right
\* password and an unconfirmed address; another error of get_user is
\* returned as Other
C24_LoginDecision ==
    uc_out.op = "login" =>
        LET u == db_get_user(db_users, uc_out.username)
            verified == u.some /\ bcrypt_verify(uc_out.password, u.val.password)
        IN  /\ uc_out.result = "Ok" <=>
                   /\ GetUserOutcome = "Ok"
                   /\ verified
                   /\ u.val.email_confirmed
            /\ uc_out.result = "Ok" => uc_out.id = u.val.id
            /\ GetUserOutcome = "NotFound" =>
                   (~ u.some /\ uc_out.result = "Credentials")
            /\ (GetUserOutcome = "Ok" /\ ~ verified) =>
                   uc_out.result = "Credentials"
            /\ uc_out.result = "EmailNotConfirmed" <=>
                   /\ GetUserOutcome = "Ok"
                   /\ verified
                   /\ ~ u.val.email_confirmed
            /\ GetUserOutcome = "Other" <=> uc_out.result = "Other"
            /\ uc_out.result = "Credentials" => respond_to(uc_out.result) = 401

\* a wrong password for a stored user whose address is not confirmed was
\* answered with Credentials, while another user has a confirmed address
C24_Witness ==
    /\ uc_out.op = "login"
    /\ uc_out.result = "Credentials"
    /\ GetUserOutcome = "Ok"
    /\ db_get_user(db_users, uc_out.username).some
    /\ ~ db_get_user(db_users, uc_out.username).val.email_confirmed
    /\ \E i \in 1..Len(db_users) : db_users[i].email_confirmed

\* C25: a create_new_user call with a user name that is stored returns
\* UserExists and leaves the stored users as they were; no two stored users
\* have the same user name; a user is stored with email_confirmed = false
C25_UsernamesUnique ==
    [][ /\ (/\ uc_out'.op = "create_new_user"
            /\ uc_out'.result # "Invalid"
            /\ db_get_user(db_users, uc_out'.username).some) =>
               (uc_out'.result = "UserExists" /\ db_users' = db_users)
        /\ \A i, j \in 1..Len(db_users') :
               i # j => db_users'[i].username # db_users'[j].username
        /\ Len(db_users') > Len(db_users) =>
               ~ db_users'[Len(db_users')].email_confirmed ]_vars

---------------------------------------------------------------------------
(* business/usecase/mod.rs: delete_user and email_addresses_to_notify *)

\* Db::delete_user: the user with the id is removed
db_delete_user(users, u_id) == SelectSeq(users, LAMBDA u : u.id # u_id)

\* (u_id, s_id) of the triples (User, SubscribedTo, BboxSubscription), in
\* the order of all_triples()
user_subscription_pairs(triples) ==
    LET matching == SelectSeq(triples, LAMBDA triple :
                        /\ triple.subject.kind = "User"
                        /\ triple.predicate = "SubscribedTo"
                        /\ triple.object.kind = "BboxSubscription")
    IN  [i \in 1..Len(matching) |->
            [u_id |-> matching[i].subject.id, s_id |-> matching[i].object.id]]

\* all_users().filter(|u| u.id == u_id).map(|u| u.email).nth(0)
email_of_user_id(users, u_id) ==
    LET found == SelectSeq(users, LAMBDA u : u.id = u_id)
    IN  IF found = <<>> THEN None ELSE Some(Head(found).email)

\* all_bbox_subscriptions().filter(|s| s.id == s_id).map(Bbox).nth(0)
bbox_of_subscription_id(subscriptions, s_id) ==
    LET found == SelectSeq(subscriptions, LAMBDA sub : sub.id = s_id)
    IN  IF found = <<>> THEN None
        ELSE Some(<< Coordinate(Head(found).south_west_lat,
                                Head(found).south_west_lng),
                     Coordinate(Head(found).north_east_lat,
                                Head(found).north_east_lng) >>)

\* users_and_bboxes: the two lookups for every pair; an unwrap of a lookup
\* that found nothing panics
RECURSIVE users_and_bboxes(_, _, _)
users_and_bboxes(pairs, users, subscriptions) ==
    IF pairs = <<>> THEN [panic |-> FALSE, list |-> <<>>]
    ELSE LET email == email_of_user_id(users, Head(pairs).u_id)
             bbox == bbox_of_subscription_id(subscriptions, Head(pairs).s_id)
             rest == users_and_bboxes(Tail(pairs), users, subscriptions)
         IN  IF ~ email.some \/ ~ bbox.some \/ rest.panic
             THEN [panic |-> TRUE, list |-> <<>>]
             ELSE [panic |-> FALSE,
                   list |-> << [email |-> email.val, bbox |-> bbox.val] >>
                              \o rest.list]

\* emails_to_notify: the addresses whose box holds (lat, lng)
emails_to_notify(list, lat, lng) ==
    LET matching == SelectSeq(list, LAMBDA ub :
                        in_bbox(Coordinate(lat, lng), ub.bbox))
    IN  [i \in 1..Len(matching) |-> matching[i].email]

\* what email_addresses_to_notify leaves in uc_out: the point, whether the
\* call returned or panicked, and the list it returned
NotifyOut(lat, lng, result, emails) ==
    [op |-> "email_addresses_to_notify", lat |-> lat, lng |-> lng,
     result |-> result, emails |-> emails]

\* email_addresses_to_notify: it returns no Result; a failing repository
\* call and a lookup that finds nothing end in the panic of an unwrap
email_addresses_to_notify(lat, lng) ==
    LET found == users_and_bboxes(user_subscription_pairs(db_triples),
                                  db_users, db_bbox_subscriptions)
    IN  /\ \/ /\ uc_out' = NotifyOut(lat, lng, "panic", <<>>)
              /\ db_calls' = << DbCall("all_triples", "Other") >>
           \/ /\ found.panic
              /\ uc_out' = NotifyOut(lat, lng, "panic", <<>>)
              /\ db_calls' = << DbCall("all_triples", "Ok") >>
           \/ /\ ~ found.panic
              /\ uc_out' = NotifyOut(lat, lng, "Ok",
                                     emails_to_notify(found.list, lat, lng))
              /\ db_calls' = << DbCall("all_triples", "Ok") >>
        /\ UNCHANGED <<searchVars, ratingVars, distVars, repoVars>>
        /\ UNCHANGED <<db_users, uc_hist, upd_proc, textVars, idVars>>

\* delete_user: Forbidden unless the ids are the same, then Db::delete_user
delete_user(login_id, u_id) ==
    LET out(result) == UserOut("delete_user", "", "", "", result, u_id)
    IN  /\ \/ /\ login_id # u_id
              /\ uc_out' = out("Forbidden")
              /\ db_calls' = <<>>
              /\ UNCHANGED db_users
           \/ /\ login_id = u_id
              /\ uc_out' = out("Other")
              /\ db_calls' = << DbCall("delete_user", "Other") >>
              /\ UNCHANGED db_users
           \/ /\ login_id = u_id
              /\ db_users' = db_delete_user(db_users, login_id)
              /\ uc_out' = out("Ok")
              /\ db_calls' = << DbCall("delete_user", "Ok") >>
        /\ UNCHANGED <<searchVars, ratingVars, distVars, repoVars>>
        /\ UNCHANGED <<uc_hist, upd_proc, textVars, idVars>>

---------------------------------------------------------------------------
(* Users, subscriptions and notifications, one call at a time *)

\* the NewUser requests: each user name with an address of its own
NotifyNewUsers ==
    { [username |-> "u1", password |-> "p1", email |-> "e1"],
      [username |-> "u2", password |-> "p1", email |-> "e2"] }

\* the user ids that appear in requests
NotifyUserIds == { UserIdPool[1], UserIdPool[2] }

\* what subscribe_to_bbox is handed as username: the name of a user, or
\* the id of the user that was created first
NotifySubscribers == { "u1", UserIdPool[1] }

\* the box users subscribe to
NotifyBoxes == { RequestBbox }

\* the places of new entries: one in the box, one outside
NotifyPoints == { Coordinate(5, 5), Coordinate(50, 50) }

InitNotify ==
    /\ db_entries = <<>>
    /\ db_tags = {}
    /\ search_out = NoSearch
    /\ IdleRating /\ IdleDist /\ IdleRepo /\ IdleUc
    /\ IdleUsers /\ IdleText /\ IdleIds

NextNotify ==
    \/ \E u \in NotifyNewUsers : create_new_user(u)
    \/ \E coordinates \in NotifyBoxes, username \in NotifySubscribers :
          subscribe_to_bbox(coordinates, username)
    \/ \E username \in NotifySubscribers : unsubscribe_all_bboxes(username)
    \/ \E login_id \in NotifyUserIds, u_id \in NotifyUserIds :
          delete_user(login_id, u_id)
    \/ \E c \in NotifyPoints : email_addresses_to_notify(c.lat, c.lng)

SpecNotify == InitNotify /\ [][NextNotify]_vars

---------------------------------------------------------------------------
(* Claims about the notifications, checked under SpecNotify *)

\* the last call was email_addresses_to_notify and no repository call failed
Notified ==
    /\ uc_out.op = "email_addresses_to_notify"
    /\ db_calls = << DbCall("all_triples", "Ok") >>

\* the triple is a SubscribedTo triple of a user and a subscription
IsSubscribedTo(triple) ==
    /\ triple.subject.kind = "User"
    /\ triple.predicate = "SubscribedTo"
    /\ triple.object.kind = "BboxSubscription"

\* a SubscribedTo triple links the user, by id or by user name, to a stored
\* subscription whose box holds (lat, lng)
SubscribedInBox(u, lat, lng) ==
    \E j \in 1..Len(db_triples) :
        /\ IsSubscribedTo(db_triples[j])
        /\ db_triples[j].subject.id \in {u.id, u.username}
        /\ \E k \in 1..Len(db_bbox_subscriptions) :
               /\ db_bbox_subscriptions[k].id = db_triples[j].object.id
               /\ in_bbox(Coordinate(lat, lng),
                          << Coordinate(db_bbox_subscriptions[k].south_west_lat,
                                        db_bbox_subscriptions[k].south_west_lng),
                             Coordinate(db_bbox_subscriptions[k].north_east_lat,
                                        db_bbox_subscriptions[k].north_east_lng) >>)

\* every SubscribedTo triple has a stored user, named by id or by user
\* name, as subject and a stored subscription as object
TriplesResolved ==
    \A j \in 1..Len(db_triples) :
        IsSubscribedTo(db_triples[j]) =>
            /\ \E i \in 1..Len(db_users) :
                   db_triples[j].subject.id \in {db_users[i].id, db_users[i].username}
            /\ \E k \in 1..Len(db_bbox_subscriptions) :
                   db_bbox_subscriptions[k].id = db_triples[j].object.id

\* C21: when every subscription triple names a stored user and a stored
\* subscription, email_addresses_to_notify(lat, lng) returns, and the
\* address of a user is in the list exactly when a SubscribedTo triple
\* links a user with that address to a subscription whose box holds the
\* point
C21_NotifiesSubscribedUsers ==
    (Notified /\ TriplesResolved) =>
        /\ uc_out.result = "Ok"
        /\ \A i \in 1..Len(db_users) :
               (db_users[i].email \in Range(uc_out.emails))
                   <=> \E m \in 1..Len(db_users) :
                           /\ db_users[m].email = db_users[i].email
                           /\ SubscribedInBox(db_users[m], uc_out.lat, uc_out.lng)
        /\ \A e \in Range(uc_out.emails) :
               \E i \in 1..Len(db_users) : db_users[i].email = e

\* C30: in every state reached by create_new_user, subscribe_to_bbox,
\* unsubscribe_all_bboxes and delete_user, every SubscribedTo triple has the
\* id of a stored user as subject and the id of a stored subscription as
\* object, and email_addresses_to_notify returns a list whenever the
\* repository answers its calls
C30_NotifyNeverPanics ==
    /\ \A j \in 1..Len(db_triples) :
           IsSubscribedTo(db_triples[j]) =>
               /\ email_of_user_id(db_users, db_triples[j].subject.id).some
               /\ bbox_of_subscription_id(db_bbox_subscriptions,
                                          db_triples[j].object.id).some
    /\ Notified => uc_out.result = "Ok"

====
